---- MODULE Spec2Model ----
(***************************************************************************)
(* The event-announcement pipeline of BYCEPS: events published on the bus  *)
(* are enqueued as jobs; a worker runs the announcer of the event type,    *)
(* which composes a text, looks up the outgoing webhooks and calls them.   *)
(* Beside it, the parts of the site that publish or that the services     *)
(* answer for: the creation of user accounts, the confirmation of email   *)
(* addresses, and the party service.                                      *)
(***************************************************************************)
EXTENDS Integers, Sequences, FiniteSets, TLC

VARIABLES
    webhooks,   \* the webhook registry: the rows of the outgoing-webhook table
    queue,      \* the job queue: jobs enqueued and not yet taken by the worker
    run,        \* what the worker's most recent job did (its requests, log, outcome)
    admin,      \* what the most recent request to the webhook admin did
    network,    \* what the endpoint of each URL does with a POST
    accounts,   \* the user table of the site: user id -> row
    tokens,     \* the verification tokens: token -> user id and purpose
    subscriptions, \* the newsletter subscriptions: pairs of user id and list id
    parties,    \* the party table: party id -> row
    site,       \* what the most recent request to the site (or service call) did
    app,        \* the site application: its cache of context processors
    shop        \* the shop: the order action table and the orders

\* The announcement pipeline and the webhook admin.
announceVars == <<webhooks, queue, run, admin, network>>

\* The tables of the site and its most recent request.
siteVars ==
    <<accounts, tokens, subscriptions, parties, site, app, shop>>

vars == <<webhooks, queue, run, admin, network, accounts, tokens,
          subscriptions, parties, site, app, shop>>

-----------------------------------------------------------------------------
(* Bounds of the model *)

\* Rows of the webhook table in the pipeline.
MaxWebhooks == 2

\* Rows of the webhook table when a single job is run.
MaxTargets == 1

\* Jobs waiting in the queue.
MaxQueue == 1

\* User accounts created through the site.
MaxAccounts == 2

\* Jobs waiting in the queue of the worker that is scheduled fairly.
MaxPending == 2

\* Verification tokens created.
MaxTokens == 4

-----------------------------------------------------------------------------
(* Python values *)

\* Python's None; a value of its own, distinct from every string of the model.
None == "<None>"

\* Python's None where an object (a record) is expected.
NoObject == <<>>

\* str(v), as an f-string renders a value.
Str(v) == IF v = None THEN "None" ELSE v

\* bool(v) for a string or None: empty and None are falsy.
Truthy(v) == v # None /\ v # ""

\* An empty dict.
EmptyDict == [k \in {} |-> None]

\* d.get(key): the value, or None for a key the dict does not hold.
DictGet(d, key) == IF key \in DOMAIN d THEN d[key] ELSE None

\* t occurs in s.
Contains(s, t) ==
    \E i \in 1..(Len(s) - Len(t) + 1) : SubSeq(s, i, i + Len(t) - 1) = t

StartsWith(s, t) == Len(s) >= Len(t) /\ SubSeq(s, 1, Len(t)) = t

-----------------------------------------------------------------------------
(* Users and badges: the rows the announcers look up *)

UserIDs == {"u1", "u2"}

ScreenNames == [u1 |-> "Alice", u2 |-> "Bob"]

BadgeIDs == {"b1"}

BadgeLabels == [b1 |-> "Hero"]

\* user_service.find_user: the user with that id, or None.  The users are
\* the two that exist from the start and the accounts created since.
find_user(user_id) ==
    IF user_id \in UserIDs
        THEN [id |-> user_id, screen_name |-> ScreenNames[user_id]]
    ELSE IF user_id \in DOMAIN accounts
        THEN [id |-> user_id, screen_name |-> accounts[user_id].screen_name]
    ELSE NoObject

\* user_badge_service.find_badge: the badge with that id, or None.
find_badge(badge_id) ==
    IF badge_id \in BadgeIDs
        THEN [id |-> badge_id, label |-> BadgeLabels[badge_id]]
        ELSE NoObject

-----------------------------------------------------------------------------
(* Events *)

\* announce.events.EVENT_TYPES_TO_NAMES: the name under which webhooks
\* select each event type.
EVENT_TYPES_TO_NAMES ==
    [UserAccountCreated          |-> "user-account-created",
     UserAccountDeleted          |-> "user-account-deleted",
     UserAccountSuspended        |-> "user-account-suspended",
     UserAccountUnsuspended      |-> "user-account-unsuspended",
     UserBadgeAwarded            |-> "user-badge-awarded",
     UserDetailsUpdated          |-> "user-details-updated",
     UserEmailAddressInvalidated |-> "user-email-address-invalidated",
     UserScreenNameChanged       |-> "user-screen-name-changed",
     BoardPostingCreated         |-> "board-posting-created"]

get_name_for_event(event) == EVENT_TYPES_TO_NAMES[event.type]

\* The initiator of an event: a user, or nobody.
Initiators == {None, "u1"}

\* The user an event is about.
Subjects == {"u2"}

BoardIDs == {"b1"}

\* The event types whose announcers read only user_id and initiator_id.
PlainUserEventTypes ==
    {"UserAccountCreated", "UserAccountDeleted", "UserAccountSuspended",
     "UserAccountUnsuspended", "UserDetailsUpdated",
     "UserEmailAddressInvalidated"}

UserEvents ==
    [type : PlainUserEventTypes, initiator_id : Initiators, user_id : Subjects]
    \cup [type : {"UserScreenNameChanged"}, initiator_id : Initiators,
          user_id : Subjects, old_screen_name : {"Bob"},
          new_screen_name : {"Rob"}]

BadgeEvents ==
    [type : {"UserBadgeAwarded"}, initiator_id : Initiators,
     user_id : Subjects, badge_id : BadgeIDs]

BoardEvents ==
    [type : {"BoardPostingCreated"}, initiator_id : Initiators,
     board_id : BoardIDs]

Events == UserEvents \cup BadgeEvents \cup BoardEvents

-----------------------------------------------------------------------------
(* Outgoing webhooks *)

TextPrefixes == {None, "", "[X] "}

\* The channel names in use, in the order Python compares them as strings.
ChannelOrder == <<"", "#a", "#b">>

ChannelNames == {ChannelOrder[i] : i \in DOMAIN ChannelOrder}

ChannelRank(c) == CHOOSE i \in DOMAIN ChannelOrder : ChannelOrder[i] = c

\* a < b for two channel names (str.__lt__).
StrLess(a, b) == ChannelRank(a) < ChannelRank(b)

\* extra_fields of an IRC webhook: with a channel, or without the key.
ChannelFields == {EmptyDict} \cup {[channel |-> c] : c \in ChannelNames}

\* Scopes a Discord webhook is registered for.
Scopes == {<<"board", "b1">>, <<"board", "b2">>, <<"site", "b1">>}

SelectorSets ==
    {{"user-badge-awarded", "board-posting-created"}, {"user-account-created"}}

\* OutgoingWebhook records without id and URL: Discord webhooks registered
\* for a scope, IRC webhooks registered globally with their extra fields.
ConfigsOf(prefixes, fields) ==
    [scope_pair : Scopes, format : {"discord"}, enabled : BOOLEAN,
     text_prefix : prefixes, extra_fields : {EmptyDict},
     event_selectors : SelectorSets]
    \cup
    [scope_pair : {<<"any", None>>}, format : {"weitersager"},
     enabled : BOOLEAN, text_prefix : prefixes,
     extra_fields : fields, event_selectors : SelectorSets]

\* Every combination of the fields above.
WebhookConfigs == ConfigsOf(TextPrefixes, ChannelFields)

\* The combinations that decide which webhooks an event selects.
SelectionConfigs ==
    ConfigsOf({None}, {EmptyDict, [channel |-> "#a"], [channel |-> "#b"]})

\* The URL of the endpoint of the webhook with that id.
Url(id) == "https://hooks.example/" \o ToString(id)

\* OutgoingWebhook (services.webhooks.transfer.models).
OutgoingWebhook(id, c) ==
    [id |-> id, scope |-> c.scope_pair[1], scope_id |-> c.scope_pair[2],
     format |-> c.format, url |-> Url(id), enabled |-> c.enabled,
     text_prefix |-> c.text_prefix, extra_fields |-> c.extra_fields,
     description |-> None, event_selectors |-> c.event_selectors]

\* The registries of at most max rows, in table order.
RegistriesOf(max, configs) ==
    UNION {{[i \in 1..n |-> OutgoingWebhook(i, f[i])] :
                f \in [1..n -> configs]} : n \in 0..max}

-----------------------------------------------------------------------------
(* byceps.announce.helpers *)

\* Return the screen name or a fallback value.
get_screen_name_or_fallback(screen_name) ==
    IF Truthy(screen_name) THEN screen_name ELSE "Jemand"

\* webhook_service.get_enabled_outgoing_webhooks: the enabled rows of the
\* table db with that format whose selectors hold the event name, in table
\* order.
get_enabled_outgoing_webhooks(db, event_name, webhook_format) ==
    SelectSeq(db, LAMBDA wh : wh.enabled
                              /\ wh.format = webhook_format
                              /\ event_name \in wh.event_selectors)

\* get_webhooks_for_discord asking for a fixed event name instead of the
\* event's.
get_webhooks_for_discord_wrong_name(db, event) ==
    get_enabled_outgoing_webhooks(db, "user-account-created", "discord")

get_webhooks_for_discord(db, event) ==
    get_enabled_outgoing_webhooks(db, get_name_for_event(event), "discord")

\* SortByChannel putting an element before the elements of equal key: sorted,
\* but not stable.
RECURSIVE SortByChannel_unstable(_)
SortByChannel_unstable(whs) ==
    IF whs = <<>> THEN <<>>
    ELSE LET n      == Len(whs)
             sorted == SortByChannel_unstable(SubSeq(whs, 1, n - 1))
             x      == whs[n]
             keep   == {i \in 1..Len(sorted) :
                          StrLess(sorted[i].extra_fields.channel,
                                  x.extra_fields.channel)}
             k      == IF keep = {} THEN 0
                       ELSE CHOOSE i \in keep : \A j \in keep : j <= i
         IN  SubSeq(sorted, 1, k) \o <<x>> \o SubSeq(sorted, k + 1, Len(sorted))

\* list.sort(key=lambda wh: wh.extra_fields['channel']) on a list whose
\* keys all exist: a stable sort; an element goes behind every element
\* placed so far whose key is not greater than its own.
RECURSIVE SortByChannel(_)
SortByChannel(whs) ==
    IF whs = <<>> THEN <<>>
    ELSE LET n      == Len(whs)
             sorted == SortByChannel(SubSeq(whs, 1, n - 1))
             x      == whs[n]
             keep   == {i \in 1..Len(sorted) :
                          ~StrLess(x.extra_fields.channel,
                                   sorted[i].extra_fields.channel)}
             k      == IF keep = {} THEN 0
                       ELSE CHOOSE i \in keep : \A j \in keep : j <= i
         IN  SubSeq(sorted, 1, k) \o <<x>> \o SubSeq(sorted, k + 1, Len(sorted))

\* The result of a call: the exception raised (or None), the value
\* returned, and the lines logged.
Returned(value, log) == [exc |-> None, value |-> value, log |-> log]

Raised(exc, log) == [exc |-> exc, value |-> NoObject, log |-> log]

\* get_webhooks_for_irc reading every webhook of the format and event name,
\* enabled or not.
get_webhooks_for_irc_with_disabled(db, event) ==
    LET whs == SelectSeq(db, LAMBDA wh :
                   /\ wh.format = "weitersager"
                   /\ get_name_for_event(event) \in wh.event_selectors)
    IN  IF whs = <<>>
            THEN Returned(<<>>, <<"No enabled IRC webhooks found. Not sending message to IRC.">>)
        ELSE IF \E i \in 1..Len(whs) : "channel" \notin DOMAIN whs[i].extra_fields
            THEN Raised("KeyError", <<>>)
        ELSE Returned(SortByChannel(whs), <<>>)

get_webhooks_for_irc(db, event) ==
    LET whs == get_enabled_outgoing_webhooks(
                   db, get_name_for_event(event), "weitersager")
    IN  IF whs = <<>>
            THEN Returned(<<>>, <<"No enabled IRC webhooks found. Not sending message to IRC.">>)
        ELSE IF \E i \in 1..Len(whs) : "channel" \notin DOMAIN whs[i].extra_fields
            THEN Raised("KeyError", <<>>)
        ELSE Returned(SortByChannel(whs), <<>>)

\* match_scope comparing the scope type alone.
match_scope_type_only(webhook, scope, scope_id) ==
    webhook.scope = scope

match_scope(webhook, scope, scope_id) ==
    webhook.scope = scope /\ webhook.scope_id = scope_id

\* _assemble_request_data shaping every payload as the Discord one.
_assemble_request_data_content_only(webhook, text) ==
    Returned([content |-> text], <<>>)

_assemble_request_data(webhook, text) ==
    IF webhook.format = "discord"
        THEN Returned([content |-> text], <<>>)
    ELSE IF webhook.format = "weitersager"
        THEN LET channel == DictGet(webhook.extra_fields, "channel")
             IN  Returned([channel |-> channel, text |-> text],
                          IF ~Truthy(channel)
                              THEN <<"No channel specified with IRC webhook.">>
                              ELSE <<>>)
    ELSE Returned(NoObject, <<>>)

\* What an endpoint does with a POST: it answers with a status code, or the
\* connection fails and requests raises.
StatusCodes == {204, 500}

Response(status_code) == Returned([status_code |-> status_code], <<>>)

NetworkOutcomes ==
    {Response(c) : c \in StatusCodes} \cup {Raised("ConnectionError", <<>>)}

\* Every endpoint answers 204.
AllReachable(db) ==
    [url \in {db[i].url : i \in 1..Len(db)} |-> Response(204)]

\* requests.post(url, json=data): the response of the endpoint, or the
\* exception of the failed connection.
requests_post(url, data) == network[url]

\* The outcome of call_webhook: the exception it raised (or None), the lines
\* it logged and the requests it posted, each with what the endpoint did.
Called(exc, log, posts) ==
    [exc |-> exc, value |-> None, log |-> log, posts |-> posts]

\* One request as posted.
Post(webhook, data, outcome) ==
    [url |-> webhook.url, json |-> data, outcome |-> outcome]

\* call_webhook putting the prefix behind the text.
call_webhook_prefix_last(webhook, text) ==
    LET text_prefix == webhook.text_prefix
        text2       == IF Truthy(text_prefix) THEN text \o text_prefix ELSE text
        data        == _assemble_request_data(webhook, text2)
        response    == requests_post(webhook.url, data.value)
    IN  Called(response.exc, data.log,
               <<Post(webhook, data.value, response)>>)

\* call_webhook raising for a response that is not 2xx
\* (response.raise_for_status()).
call_webhook_raise_for_status(webhook, text) ==
    LET text_prefix == webhook.text_prefix
        text2       == IF Truthy(text_prefix) THEN text_prefix \o text ELSE text
        data        == _assemble_request_data(webhook, text2)
        response    == requests_post(webhook.url, data.value)
    IN  Called(IF response.exc # None THEN response.exc
               ELSE IF response.value.status_code \notin 200..299
                   THEN "HTTPError"
               ELSE None,
               data.log, <<Post(webhook, data.value, response)>>)

\* Send HTTP request to the webhook.  The response is not looked at; an
\* exception of requests.post leaves the function.
call_webhook(webhook, text) ==
    LET text_prefix == webhook.text_prefix
        text2       == IF Truthy(text_prefix) THEN text_prefix \o text ELSE text
        data        == _assemble_request_data(webhook, text2)
        response    == requests_post(webhook.url, data.value)
    IN  Called(response.exc, data.log,
               <<Post(webhook, data.value, response)>>)

-----------------------------------------------------------------------------
(* byceps.announce.irc: the announcers.  The German texts are written in  *)
(* ASCII: ae, oe for the umlauts.                                         *)

CHANNEL_ORGA_LOG == "orga-log"

CHANNEL_PUBLIC == "public"

\* What an announcer hands to send_message, and the ids it looked up.
Message(channels, text, found) ==
    [exc |-> None, channels |-> channels, text |-> text, found |-> found]

\* An announcer that raised before it reached send_message.
Failed(exc, found) ==
    [exc |-> exc, channels |-> <<>>, text |-> None, found |-> found]

\* announce_user_account_created looking up the initiator whatever the id.
announce_user_account_created_no_fallback(event) ==
    LET channels  == <<CHANNEL_ORGA_LOG>>
        user      == find_user(event.user_id)
        initiator == find_user(event.initiator_id)
        found     == <<event.user_id, event.initiator_id>>
    IN  IF user = NoObject \/ initiator = NoObject
            THEN Failed("AttributeError", found)
        ELSE Message(channels,
                     Str(initiator.screen_name) \o " hat das Benutzerkonto \""
                         \o Str(user.screen_name) \o "\" angelegt.",
                     found)

\* Announce that a user account has been created.
announce_user_account_created(event) ==
    LET channels  == <<CHANNEL_ORGA_LOG>>
        user      == find_user(event.user_id)
        lookup    == event.initiator_id # None
        initiator == find_user(event.initiator_id)
        found     == <<event.user_id>>
                     \o (IF lookup THEN <<event.initiator_id>> ELSE <<>>)
    IN  IF (lookup /\ initiator = NoObject) \/ user = NoObject
            THEN Failed("AttributeError", found)
        ELSE LET initiator_label ==
                     IF lookup THEN initiator.screen_name ELSE "Jemand"
             IN  Message(channels,
                         Str(initiator_label) \o " hat das Benutzerkonto \""
                             \o Str(user.screen_name) \o "\" angelegt.",
                         found)

\* Announce that a user's screen name has been changed.
announce_user_screen_name_changed(event) ==
    LET channels  == <<CHANNEL_ORGA_LOG>>
        initiator == find_user(event.initiator_id)
        found     == <<event.initiator_id>>
    IN  IF initiator = NoObject
            THEN Failed("AttributeError", found)
        ELSE Message(channels,
                     Str(initiator.screen_name) \o " hat das Benutzerkonto \""
                         \o Str(event.old_screen_name) \o "\" in \""
                         \o Str(event.new_screen_name) \o "\" umbenannt.",
                     found)

\* The announcers that look up the user and the initiator and put both
\* screen names around a phrase.
AnnounceUserAndInitiator(event, before, after) ==
    LET channels  == <<CHANNEL_ORGA_LOG>>
        user      == find_user(event.user_id)
        initiator == find_user(event.initiator_id)
        found     == <<event.user_id, event.initiator_id>>
    IN  IF user = NoObject \/ initiator = NoObject
            THEN Failed("AttributeError", found)
        ELSE Message(channels,
                     Str(initiator.screen_name) \o before
                         \o Str(user.screen_name) \o after,
                     found)

\* Announce that a user's email address has been invalidated.
announce_user_email_address_invalidated(event) ==
    AnnounceUserAndInitiator(event,
        " hat die E-Mail-Adresse des Benutzerkontos \"", "\" invalidiert.")

\* Announce that a user's details have been changed.
announce_user_details_updated_changed(event) ==
    AnnounceUserAndInitiator(event,
        " hat die persoenlichen Daten des Benutzerkontos \"", "\" geaendert.")

\* Announce that a user account has been suspended.
announce_user_account_suspended(event) ==
    AnnounceUserAndInitiator(event,
        " hat das Benutzerkonto \"", "\" gesperrt.")

\* Announce that a user account has been unsuspended.
announce_user_account_unsuspended(event) ==
    AnnounceUserAndInitiator(event,
        " hat das Benutzerkonto \"", "\" entsperrt.")

\* Announce that a user account has been deleted; the text names the id.
announce_user_account_deleted(event) ==
    LET channels  == <<CHANNEL_ORGA_LOG>>
        user      == find_user(event.user_id)
        initiator == find_user(event.initiator_id)
        found     == <<event.user_id, event.initiator_id>>
    IN  IF user = NoObject \/ initiator = NoObject
            THEN Failed("AttributeError", found)
        ELSE Message(channels,
                     Str(initiator.screen_name)
                         \o " hat das Benutzerkonto mit der ID \""
                         \o Str(user.id) \o "\" geloescht.",
                     found)

\* The announcer of badges announcing on the public channel as well.
announce_user_badge_awarded_public(event) ==
    LET channels  == <<CHANNEL_ORGA_LOG, CHANNEL_PUBLIC>>
        user      == find_user(event.user_id)
        badge     == find_badge(event.badge_id)
        lookup    == Truthy(event.initiator_id)
        initiator == find_user(event.initiator_id)
        found     == <<event.user_id>>
                     \o (IF lookup THEN <<event.initiator_id>> ELSE <<>>)
    IN  IF (lookup /\ initiator = NoObject) \/ badge = NoObject \/ user = NoObject
            THEN Failed("AttributeError", found)
        ELSE LET initiator_name ==
                     IF lookup THEN initiator.screen_name ELSE "Jemand"
             IN  Message(channels,
                         Str(initiator_name) \o " hat das Abzeichen \""
                             \o Str(badge.label) \o "\" an "
                             \o Str(user.screen_name) \o " verliehen.",
                         found)

\* Announce that a badge has been awarded to a user.
announce_user_badge_awarded(event) ==
    LET channels  == <<CHANNEL_ORGA_LOG>>
        user      == find_user(event.user_id)
        badge     == find_badge(event.badge_id)
        lookup    == Truthy(event.initiator_id)
        initiator == find_user(event.initiator_id)
        found     == <<event.user_id>>
                     \o (IF lookup THEN <<event.initiator_id>> ELSE <<>>)
    IN  IF (lookup /\ initiator = NoObject) \/ badge = NoObject \/ user = NoObject
            THEN Failed("AttributeError", found)
        ELSE LET initiator_name ==
                     IF lookup THEN initiator.screen_name ELSE "Jemand"
             IN  Message(channels,
                         Str(initiator_name) \o " hat das Abzeichen \""
                             \o Str(badge.label) \o "\" an "
                             \o Str(user.screen_name) \o " verliehen.",
                         found)

\* The announcer of board postings (Discord): the text names the board.
announce_board_posting_created(event) ==
    Message(<<>>,
            "[Forum] " \o get_screen_name_or_fallback(
                              IF event.initiator_id = None THEN None
                              ELSE find_user(event.initiator_id).screen_name)
                \o " hat im Forum " \o Str(event.board_id) \o " geantwortet.",
            IF event.initiator_id = None THEN <<>> ELSE <<event.initiator_id>>)

-----------------------------------------------------------------------------
(* Delivery: what send_message does with the announcer's text *)

RECURSIVE Concat(_)
Concat(seqs) == IF seqs = <<>> THEN <<>> ELSE Head(seqs) \o Concat(Tail(seqs))

\* for webhook in webhooks: call_webhook(webhook, text).  The loop ends
\* with the first call that raises.
CallEach(whs, text, log) ==
    LET calls  == [i \in 1..Len(whs) |-> call_webhook(whs[i], text)]
        failed == {i \in 1..Len(whs) : calls[i].exc # None}
        last   == IF failed = {} THEN Len(whs)
                  ELSE CHOOSE i \in failed : \A j \in failed : i <= j
    IN  [exc    |-> IF failed = {} THEN None ELSE calls[last].exc,
         lookup |-> whs,
         posts  |-> Concat([i \in 1..last |-> calls[i].posts]),
         log    |-> log \o Concat([i \in 1..last |-> calls[i].log])]

\* IRC: the text goes to every webhook get_webhooks_for_irc returns.
send_message_irc(db, event, text) ==
    LET r == get_webhooks_for_irc(db, event)
    IN  IF r.exc # None
            THEN [exc |-> r.exc, lookup |-> <<>>, posts |-> <<>>,
                  log |-> r.log]
        ELSE CallEach(r.value, text, r.log)

\* Discord: the text goes to the webhooks of the event's scope.
send_message_discord(db, event, scope, scope_id, text) ==
    LET whs == SelectSeq(get_webhooks_for_discord(db, event),
                         LAMBDA wh : match_scope(wh, scope, scope_id))
    IN  CallEach(whs, text, <<>>)

-----------------------------------------------------------------------------
(* Jobs *)

\* The announcer each handler (_on_...) enqueues for its event type.
AnnouncerOf ==
    [UserAccountCreated          |-> "announce_user_account_created",
     UserAccountDeleted          |-> "announce_user_account_deleted",
     UserAccountSuspended        |-> "announce_user_account_suspended",
     UserAccountUnsuspended      |-> "announce_user_account_unsuspended",
     UserBadgeAwarded            |-> "announce_user_badge_awarded",
     UserDetailsUpdated          |-> "announce_user_details_updated_changed",
     UserEmailAddressInvalidated |-> "announce_user_email_address_invalidated",
     UserScreenNameChanged       |-> "announce_user_screen_name_changed",
     BoardPostingCreated         |-> "announce_board_posting_created"]

\* A queue that holds the latest job only.
enqueue_overwriting(q, func, event) == <<[func |-> func, event |-> event]>>

\* util.jobqueue.enqueue: the job joins the queue.
enqueue(q, func, event) == Append(q, [func |-> func, event |-> event])

\* The call func(event) of a job.
CallAnnouncer(func, event) ==
    CASE func = "announce_user_account_created" ->
             announce_user_account_created(event)
      [] func = "announce_user_account_deleted" ->
             announce_user_account_deleted(event)
      [] func = "announce_user_account_suspended" ->
             announce_user_account_suspended(event)
      [] func = "announce_user_account_unsuspended" ->
             announce_user_account_unsuspended(event)
      [] func = "announce_user_badge_awarded" ->
             announce_user_badge_awarded(event)
      [] func = "announce_user_details_updated_changed" ->
             announce_user_details_updated_changed(event)
      [] func = "announce_user_email_address_invalidated" ->
             announce_user_email_address_invalidated(event)
      [] func = "announce_user_screen_name_changed" ->
             announce_user_screen_name_changed(event)
      [] func = "announce_board_posting_created" ->
             announce_board_posting_created(event)

\* A whole job: the announcer, then send_message.
ExecuteJob(db, job) ==
    LET m == CallAnnouncer(job.func, job.event)
        d == IF job.event.type = "BoardPostingCreated"
                 THEN send_message_discord(db, job.event, "board",
                                           job.event.board_id, m.text)
                 ELSE send_message_irc(db, job.event, m.text)
    IN  IF m.exc # None
            THEN [status |-> "raised", event |-> job.event, exc |-> m.exc,
                  channels |-> m.channels, text |-> m.text,
                  found |-> m.found, lookup |-> <<>>, posts |-> <<>>,
                  log |-> <<>>]
        ELSE [status |-> IF d.exc = None THEN "done" ELSE "raised",
              event |-> job.event, exc |-> d.exc, channels |-> m.channels,
              text |-> m.text, found |-> m.found, lookup |-> d.lookup,
              posts |-> d.posts, log |-> d.log]

\* No job has run yet.
Idle ==
    [status |-> "idle", event |-> NoObject, exc |-> None, channels |-> <<>>,
     text |-> None, found |-> <<>>, lookup |-> <<>>, posts |-> <<>>,
     log |-> <<>>]

-----------------------------------------------------------------------------
(* Actions *)

\* A handler that calls its announcer itself instead of enqueueing it.
Publish_synchronous(event) ==
    /\ Len(queue) < MaxQueue
    /\ run' = ExecuteJob(webhooks, [func |-> AnnouncerOf[event.type],
                                    event |-> event])
    /\ UNCHANGED <<webhooks, queue, admin, network>>
    /\ UNCHANGED siteVars

\* signal.send(event=event): the handler connected to the event type
\* enqueues the announcer with the event.
Publish(event) ==
    /\ Len(queue) < MaxQueue
    /\ queue' = enqueue(queue, AnnouncerOf[event.type], event)
    /\ UNCHANGED <<webhooks, run, admin, network>>
    /\ UNCHANGED siteVars

\* The worker takes a job from the queue and executes it.
RunJob ==
    \E i \in 1..Len(queue) :
        /\ queue' = SubSeq(queue, 1, i - 1) \o SubSeq(queue, i + 1, Len(queue))
        /\ run' = ExecuteJob(webhooks, queue[i])
        /\ UNCHANGED <<webhooks, admin, network>>
        /\ UNCHANGED siteVars

-----------------------------------------------------------------------------
(* byceps.blueprints.admin.webhook.views *)

\* webhook_service.find_webhook: the row with that id, or None.
find_webhook(db, webhook_id) ==
    IF \E i \in 1..Len(db) : db[i].id = webhook_id
        THEN db[CHOOSE i \in 1..Len(db) : db[i].id = webhook_id]
        ELSE NoObject

_get_webhook_or_404(db, webhook_id) ==
    LET webhook == find_webhook(db, webhook_id)
    IN  IF webhook = NoObject THEN Raised("404", <<>>)
        ELSE Returned(webhook, <<>>)

TEST_TEXT == "Test, test ... is this thing on?!"

\* No request to the webhook admin yet.
NoRequest ==
    [action |-> "none", webhook_id |-> 0, status |-> 0, posts |-> <<>>,
     log |-> <<>>, flash |-> <<>>]

\* The view test without its try: an exception of the call leaves the view.
test_uncaught(webhook_id) ==
    LET found == _get_webhook_or_404(webhooks, webhook_id)
        call  == call_webhook(found.value, TEST_TEXT)
    IN  /\ admin' =
               IF found.exc # None
                   THEN [action |-> "test", webhook_id |-> webhook_id,
                         status |-> 404, posts |-> <<>>, log |-> <<>>,
                         flash |-> <<>>]
               ELSE IF call.exc # None
                   THEN [action |-> "test", webhook_id |-> webhook_id,
                         status |-> 500, posts |-> call.posts,
                         log |-> call.log, flash |-> <<>>]
               ELSE [action |-> "test", webhook_id |-> webhook_id,
                     status |-> 204, posts |-> call.posts,
                     log |-> call.log,
                     flash |-> <<<<"success",
                                   "Webhook call has been successful.">>>>]
        /\ UNCHANGED <<webhooks, queue, run, network>>
        /\ UNCHANGED siteVars

\* The view test refusing a webhook that is disabled.
test_enabled_only(webhook_id) ==
    LET found == _get_webhook_or_404(webhooks, webhook_id)
        call  == call_webhook(found.value, TEST_TEXT)
    IN  /\ admin' =
               IF found.exc # None \/ ~found.value.enabled
                   THEN [action |-> "test", webhook_id |-> webhook_id,
                         status |-> 404, posts |-> <<>>, log |-> <<>>,
                         flash |-> <<>>]
               ELSE [action |-> "test", webhook_id |-> webhook_id,
                     status |-> 204, posts |-> call.posts,
                     log |-> call.log,
                     flash |-> <<<<"success",
                                   "Webhook call has been successful.">>>>]
        /\ UNCHANGED <<webhooks, queue, run, network>>
        /\ UNCHANGED siteVars

\* POST /webhooks/<webhook_id>/test: call the webhook (synchronously).
test(webhook_id) ==
    LET found == _get_webhook_or_404(webhooks, webhook_id)
        call  == call_webhook(found.value, TEST_TEXT)
    IN  /\ admin' =
               IF found.exc # None
                   THEN [action |-> "test", webhook_id |-> webhook_id,
                         status |-> 404, posts |-> <<>>, log |-> <<>>,
                         flash |-> <<>>]
               ELSE [action |-> "test", webhook_id |-> webhook_id,
                     status |-> 204, posts |-> call.posts,
                     log |-> call.log,
                     flash |->
                         IF call.exc = None
                             THEN <<<<"success",
                                      "Webhook call has been successful.">>>>
                         ELSE <<<<"error",
                                  "Webhook call failed:"
                                      \o "<br><pre style=\"white-space: pre-wrap;\">"
                                      \o call.exc \o "</pre>">>>>]
        /\ UNCHANGED <<webhooks, queue, run, network>>
        /\ UNCHANGED siteVars

-----------------------------------------------------------------------------
(* Python strings *)

\* str.strip(), for the whitespace the model uses (the space).
RECURSIVE lstrip(_)
lstrip(s) ==
    IF Len(s) > 0 /\ SubSeq(s, 1, 1) = " "
        THEN lstrip(SubSeq(s, 2, Len(s)))
        ELSE s

RECURSIVE rstrip(_)
rstrip(s) ==
    IF Len(s) > 0 /\ SubSeq(s, Len(s), Len(s)) = " "
        THEN rstrip(SubSeq(s, 1, Len(s) - 1))
        ELSE s

strip(s) == rstrip(lstrip(s))

UpperCase ==
    <<"A", "B", "C", "D", "E", "F", "G", "H", "I", "J", "K", "L", "M",
      "N", "O", "P", "Q", "R", "S", "T", "U", "V", "W", "X", "Y", "Z">>

LowerCase ==
    <<"a", "b", "c", "d", "e", "f", "g", "h", "i", "j", "k", "l", "m",
      "n", "o", "p", "q", "r", "s", "t", "u", "v", "w", "x", "y", "z">>

LowerChar(c) ==
    IF \E i \in 1..Len(UpperCase) : UpperCase[i] = c
        THEN LowerCase[CHOOSE i \in 1..Len(UpperCase) : UpperCase[i] = c]
        ELSE c

\* str.lower()
RECURSIVE lower(_)
lower(s) ==
    IF s = "" THEN ""
    ELSE LowerChar(SubSeq(s, 1, 1)) \o lower(SubSeq(s, 2, Len(s)))

-----------------------------------------------------------------------------
(* byceps.blueprints.site.user.creation.views *)

\* No request to the site yet.
NoCall ==
    [action |-> "none", status |-> 0, exc |-> None, flash |-> <<>>,
     steps |-> <<>>, user_id |-> None, location |-> None]

\* What a request to the site did: the status of its response (500 if an
\* exception left the view), the messages flashed, the state-changing calls
\* it made, in order, the user it was about and where it redirects to.
Answer(action, status, exc, flash, steps, user_id, location) ==
    [action |-> action, status |-> status, exc |-> exc, flash |-> flash,
     steps |-> steps, user_id |-> user_id, location |-> location]

\* The row of an account as create_user stores it.
NewAccount(screen_name, email_address) ==
    [screen_name |-> screen_name, email_address |-> email_address,
     email_address_verified |-> FALSE, initialized |-> FALSE,
     suspended |-> FALSE, deleted |-> FALSE, roles |-> {}]

\* The id of the n-th account created.
NewUserID(n) == "n" \o ToString(n)

\* user_creation_service.create_user: stores the account and commits, and
\* returns the user and the event; UserCreationFailed if the screen name or
\* the email address is taken.
create_user(db, screen_name, email_address) ==
    IF \E u \in DOMAIN db : \/ db[u].screen_name = screen_name
                            \/ db[u].email_address = email_address
        THEN Raised("UserCreationFailed", <<>>)
    ELSE LET user_id == NewUserID(Cardinality(DOMAIN db) + 1)
             row     == NewAccount(screen_name, email_address)
         IN  Returned(
                 [user  |-> [id |-> user_id, screen_name |-> screen_name],
                  event |-> [type |-> "UserAccountCreated",
                             initiator_id |-> None, user_id |-> user_id],
                  db    |-> [u \in DOMAIN db \cup {user_id} |->
                                 IF u = user_id THEN row ELSE db[u]]],
                 <<>>)

\* The handler connected to the signal account_created: enqueue the
\* announcer with the event.  With the job queue unreachable enqueue raises.
_on_user_account_created(q, event, queue_up) ==
    IF queue_up
        THEN Returned(enqueue(q, "announce_user_account_created", event), <<>>)
        ELSE Raised("ConnectionError", <<>>)

\* newsletter_command_service.subscribe
subscribe(subs, user_id, list_id) == subs \cup {<<user_id, list_id>>}

\* What the view create does to the tables and the queue, and its answer.
Created(db, q, subs, answer) ==
    [accounts |-> db, queue |-> q, subscriptions |-> subs, site |-> answer]

\* The view create with the account stored in the transaction of the
\* request, which an exception of the handler rolls back.
user_creation_create_rolled_back(db, q, subs, enabled, newsletter_list_id, form, queue_up) ==
    LET screen_name        == strip(form.screen_name)
        email_address      == lower(strip(form.email_address))
        newsletter_offered == newsletter_list_id # None
        made               == create_user(db, screen_name, email_address)
        user               == made.value.user
        sent               == _on_user_account_created(q, made.value.event,
                                                       queue_up)
        flashed            ==
            <<<<"success",
                "User \"" \o user.screen_name \o "\" has been created. "
                    \o "Before you can log in, please visit the link "
                    \o "emailed to you to verify your email address.">>>>
    IN  IF ~enabled
            THEN Created(db, q, subs,
                     Answer("create", 403, None,
                            <<<<"error", "User account creation is disabled.">>>>,
                            <<>>, None, None))
        ELSE IF ~form.valid
            THEN Created(db, q, subs,
                     Answer("create", 200, None, <<>>, <<>>, None, None))
        ELSE IF made.exc # None
            THEN Created(db, q, subs,
                     Answer("create", 200, None,
                            <<<<"error",
                                "User \"" \o screen_name
                                    \o "\" could not be created.">>>>,
                            <<"create_user">>, None, None))
        ELSE IF sent.exc # None
            THEN Created(db, q, subs,
                     Answer("create", 500, sent.exc, flashed,
                            <<"create_user", "send">>, user.id, None))
        ELSE IF newsletter_offered /\ form.subscribe_to_newsletter
            THEN Created(made.value.db, sent.value,
                     subscribe(subs, user.id, newsletter_list_id),
                     Answer("create", 302, None, flashed,
                            <<"create_user", "send", "subscribe">>, user.id,
                            "authentication.login.login_form"))
        ELSE Created(made.value.db, sent.value, subs,
                 Answer("create", 302, None, flashed,
                        <<"create_user", "send">>, user.id,
                        "authentication.login.login_form"))

\* The view create subscribing to the newsletter before it publishes the
\* event.
user_creation_create_subscribing_first(db, q, subs, enabled, newsletter_list_id, form, queue_up) ==
    LET screen_name        == strip(form.screen_name)
        email_address      == lower(strip(form.email_address))
        newsletter_offered == newsletter_list_id # None
        made               == create_user(db, screen_name, email_address)
        user               == made.value.user
        sent               == _on_user_account_created(q, made.value.event,
                                                       queue_up)
        subscribing        == newsletter_offered /\ form.subscribe_to_newsletter
        subscribed         ==
            IF subscribing THEN subscribe(subs, user.id, newsletter_list_id)
                           ELSE subs
        flashed            ==
            <<<<"success",
                "User \"" \o user.screen_name \o "\" has been created. "
                    \o "Before you can log in, please visit the link "
                    \o "emailed to you to verify your email address.">>>>
    IN  IF ~enabled
            THEN Created(db, q, subs,
                     Answer("create", 403, None,
                            <<<<"error", "User account creation is disabled.">>>>,
                            <<>>, None, None))
        ELSE IF ~form.valid
            THEN Created(db, q, subs,
                     Answer("create", 200, None, <<>>, <<>>, None, None))
        ELSE IF made.exc # None
            THEN Created(db, q, subs,
                     Answer("create", 200, None,
                            <<<<"error",
                                "User \"" \o screen_name
                                    \o "\" could not be created.">>>>,
                            <<"create_user">>, None, None))
        ELSE IF sent.exc # None
            THEN Created(made.value.db, q, subscribed,
                     Answer("create", 500, sent.exc, flashed,
                            IF subscribing
                                THEN <<"create_user", "subscribe", "send">>
                                ELSE <<"create_user", "send">>,
                            user.id, None))
        ELSE Created(made.value.db, sent.value, subscribed,
                 Answer("create", 302, None, flashed,
                        IF subscribing
                            THEN <<"create_user", "subscribe", "send">>
                            ELSE <<"create_user", "send">>,
                        user.id, "authentication.login.login_form"))

\* POST /users/: create a user.  db, q and subs are the user table, the job
\* queue and the subscriptions the request finds; enabled is the site's
\* user_account_creation_enabled, newsletter_list_id the brand's setting or
\* None, queue_up whether the job queue can be reached.
user_creation_create(db, q, subs, enabled, newsletter_list_id, form, queue_up) ==
    LET screen_name        == strip(form.screen_name)
        email_address      == lower(strip(form.email_address))
        newsletter_offered == newsletter_list_id # None
        made               == create_user(db, screen_name, email_address)
        user               == made.value.user
        sent               == _on_user_account_created(q, made.value.event,
                                                       queue_up)
        flashed            ==
            <<<<"success",
                "User \"" \o user.screen_name \o "\" has been created. "
                    \o "Before you can log in, please visit the link "
                    \o "emailed to you to verify your email address.">>>>
    IN  IF ~enabled
            THEN Created(db, q, subs,
                     Answer("create", 403, None,
                            <<<<"error", "User account creation is disabled.">>>>,
                            <<>>, None, None))
        ELSE IF ~form.valid
            THEN Created(db, q, subs,
                     Answer("create", 200, None, <<>>, <<>>, None, None))
        ELSE IF made.exc # None
            THEN Created(db, q, subs,
                     Answer("create", 200, None,
                            <<<<"error",
                                "User \"" \o screen_name
                                    \o "\" could not be created.">>>>,
                            <<"create_user">>, None, None))
        ELSE IF sent.exc # None
            THEN Created(made.value.db, q, subs,
                     Answer("create", 500, sent.exc, flashed,
                            <<"create_user", "send">>, user.id, None))
        ELSE IF newsletter_offered /\ form.subscribe_to_newsletter
            THEN Created(made.value.db, sent.value,
                     subscribe(subs, user.id, newsletter_list_id),
                     Answer("create", 302, None, flashed,
                            <<"create_user", "send", "subscribe">>, user.id,
                            "authentication.login.login_form"))
        ELSE Created(made.value.db, sent.value, subs,
                 Answer("create", 302, None, flashed,
                        <<"create_user", "send">>, user.id,
                        "authentication.login.login_form"))

\* The forms a visitor submits.
UserCreateForms ==
    [valid : BOOLEAN, screen_name : {" Carol", "Dave"},
     email_address : {"Carol@X.org ", "dave@x.org"},
     subscribe_to_newsletter : BOOLEAN]

NewsletterListIDs == {None, "news"}

\* A request to create a user arrives.
CreateRequest(enabled, newsletter_list_id, form, queue_up) ==
    LET r == user_creation_create(accounts, queue, subscriptions, enabled,
                                  newsletter_list_id, form, queue_up)
    IN  /\ Cardinality(DOMAIN accounts) < MaxAccounts
        /\ Len(queue) < MaxQueue
        /\ accounts' = r.accounts
        /\ queue' = r.queue
        /\ subscriptions' = r.subscriptions
        /\ site' = r.site
        /\ UNCHANGED <<webhooks, run, admin, network, tokens, parties, app, shop>>

-----------------------------------------------------------------------------
(* Confirmation of the email address (site blueprint user.email_address) *)

\* The n-th token created.
NewToken(n) == "t" \o ToString(n)

\* A token no user was given.
UNKNOWN_TOKEN == "wZdSLzkT-zRf2x2T6AR7yGa3Nc_X3Nn3F3XGPvPtOhw"

\* verification_token_service.create_for_email_address_confirmation: a
\* new token for the user is stored.
create_for_email_address_confirmation(tks, user_id) ==
    LET token == NewToken(Cardinality(DOMAIN tks) + 1)
    IN  [t \in DOMAIN tks \cup {token} |->
            IF t = token
                THEN [token |-> token, user_id |-> user_id,
                      purpose |-> "email_address_confirmation"]
                ELSE tks[t]]

\* A lookup that takes any stored token for the one asked for.
find_for_email_address_confirmation_by_token_any(tks, token) ==
    IF DOMAIN tks # {}
        THEN tks[CHOOSE t \in DOMAIN tks : TRUE]
        ELSE NoObject

\* verification_token_service.find_for_email_address_confirmation_by_token:
\* the stored token of that value and purpose, or None.
find_for_email_address_confirmation_by_token(tks, token) ==
    IF token \in DOMAIN tks
           /\ tks[token].purpose = "email_address_confirmation"
        THEN tks[token]
        ELSE NoObject

\* The role every initialized user is given.
BOARD_USER_ROLE == "board_user"

\* Confirmation that initializes the account without assigning the role.
confirm_email_address_without_role(db, verification_token) ==
    LET user_id == verification_token.user_id
    IN  [db EXCEPT ![user_id].email_address_verified = TRUE,
                   ![user_id].initialized = TRUE]

\* Confirm the email address of the token's user: the address is verified;
\* an account that is not initialized yet is initialized and given the
\* role.
confirm_email_address(db, verification_token) ==
    LET user_id == verification_token.user_id
    IN  IF db[user_id].initialized
            THEN [db EXCEPT ![user_id].email_address_verified = TRUE]
        ELSE [db EXCEPT ![user_id].email_address_verified = TRUE,
                        ![user_id].initialized = TRUE,
                        ![user_id].roles = @ \cup {BOARD_USER_ROLE}]

\* What the view confirm does to the user table, and its answer.
Confirmed(db, answer) == [accounts |-> db, site |-> answer]

\* GET /users/email_address/confirmation/<token>: 404 for a token that is
\* not known; else the address is confirmed and the visitor is redirected
\* to the login form.
confirm(db, tks, token) ==
    LET verification_token ==
            find_for_email_address_confirmation_by_token(tks, token)
    IN  IF verification_token = NoObject
            THEN Confirmed(db,
                     Answer("confirm", 404, None, <<>>, <<>>, None, None))
        ELSE Confirmed(confirm_email_address(db, verification_token),
                 Answer("confirm", 302, None,
                        <<<<"success",
                            "Thank you for confirming your email address.">>>>,
                        <<"confirm_email_address">>,
                        verification_token.user_id,
                        "authentication.login.login_form"))

\* The users of the test: not initialized, the address not verified.
EAC_USERS ==
    [e1 |-> NewAccount("EAC-User1", "eac-user1@users.test"),
     e2 |-> NewAccount("EAC-User2", "eac-user2@users.test")]

\* A token is created for a user (and mailed to the user).
CreateConfirmationToken(user_id) ==
    /\ Cardinality(DOMAIN tokens) < MaxTokens
    /\ tokens' = create_for_email_address_confirmation(tokens, user_id)
    /\ UNCHANGED <<accounts, subscriptions, parties, site, app, shop>>
    /\ UNCHANGED announceVars

\* A request to confirm an email address arrives.
ConfirmRequest(token) ==
    LET r == confirm(accounts, tokens, token)
    IN  /\ accounts' = r.accounts
        /\ site' = r.site
        /\ UNCHANGED <<tokens, subscriptions, parties, app, shop>>
        /\ UNCHANGED announceVars

\* The tokens a visitor may come with.
VisitorTokens == {NewToken(n) : n \in 1..MaxTokens} \cup {UNKNOWN_TOKEN}

-----------------------------------------------------------------------------
(* byceps.services.party.service *)

PartyIDs == {"lan-2019", "lan-2020", "lan-2021"}

\* The rows of the party table (DbParty).
DbParties ==
    [id : PartyIDs, brand_id : {"lan"}, title : {"LAN"},
     starts_at : {"Fri"}, ends_at : {"Sun"}, max_ticket_quantity : {None},
     ticket_management_enabled : {FALSE}, seat_management_enabled : {FALSE},
     archived : BOOLEAN]

\* The party tables: every row is stored under its id.
PartyTables ==
    UNION {{db \in [ids -> DbParties] : \A id \in ids : db[id].id = id} :
               ids \in SUBSET PartyIDs}

\* The transfer object of a row.
_db_entity_to_party(party) ==
    [id |-> party.id, brand_id |-> party.brand_id, title |-> party.title,
     starts_at |-> party.starts_at, ends_at |-> party.ends_at,
     max_ticket_quantity |-> party.max_ticket_quantity,
     ticket_management_enabled |-> party.ticket_management_enabled,
     seat_management_enabled |-> party.seat_management_enabled,
     archived |-> party.archived]

\* DbParty.query.get(party_id): the row with that primary key, or None.
query_get(db, party_id) ==
    IF party_id \in DOMAIN db THEN db[party_id] ELSE NoObject

\* Return the party with that id, or None if not found.
find_party(db, party_id) ==
    LET party == query_get(db, party_id)
    IN  IF party = NoObject THEN Returned(NoObject, <<>>)
        ELSE Returned(_db_entity_to_party(party), <<>>)

\* get_party: the party find_party returns; UnknownPartyId is raised if
\* that is None.
get_party(db, party_id) ==
    LET party == find_party(db, party_id).value
    IN  IF party = NoObject THEN Raised("UnknownPartyId", <<>>)
        ELSE Returned(party, <<>>)

\* What a call of a service function did.
Call(action, arg, result) ==
    [action |-> action, arg |-> arg, exc |-> result.exc,
     value |-> result.value]

\* The ids a caller asks for: those of the parties and one of no party.
AskedPartyIDs == PartyIDs \cup {"lan-2022"}

CallFindParty(party_id) ==
    /\ site' = Call("find_party", party_id, find_party(parties, party_id))
    /\ UNCHANGED <<accounts, tokens, subscriptions, parties, app, shop>>
    /\ UNCHANGED announceVars

CallGetParty(party_id) ==
    /\ site' = Call("get_party", party_id, get_party(parties, party_id))
    /\ UNCHANGED <<accounts, tokens, subscriptions, parties, app, shop>>
    /\ UNCHANGED announceVars

-----------------------------------------------------------------------------
(* byceps.services.newsletter.newsletter_service *)

\* The users that subscribe to newsletters, and the newsletter lists.
SubscriberIDs == {"s1", "s2"}

SubscriberNames == [s1 |-> "Sue", s2 |-> "Sam"]

SubscriberAddresses == [s1 |-> "sue@users.test", s2 |-> "sam@users.test"]

ListIDs == {"news", "deals"}

\* The rows of the user table (DbUser) of one user: the address may be
\* missing, and each of the flags may be set or not.
DbUsersOf(user_id) ==
    [screen_name : {SubscriberNames[user_id]},
     email_address : {None, SubscriberAddresses[user_id]},
     email_address_verified : BOOLEAN, initialized : BOOLEAN,
     suspended : BOOLEAN, deleted : BOOLEAN, roles : {{}}]

\* The user tables: each user has a row.
SubscriberTables ==
    {db \in [SubscriberIDs -> UNION {DbUsersOf(u) : u \in SubscriberIDs}] :
        \A u \in SubscriberIDs : db[u] \in DbUsersOf(u)}

\* The orders in which the database may return the rows of a table: a
\* query without ORDER BY returns them in any order.
RowOrders(db) ==
    {order \in [1..Cardinality(DOMAIN db) -> DOMAIN db] :
        \A u \in DOMAIN db : \E i \in DOMAIN order : order[i] = u}

\* models.Subscriber
Subscriber(screen_name, email_address) ==
    [screen_name |-> screen_name, email_address |-> email_address]

\* Subscriber details of every user asked for, whatever the row says.
_get_subscriber_details_unfiltered(db, user_ids, order) ==
    IF user_ids = {} THEN <<>>
    ELSE LET selected(u) == u \in user_ids
             rows        == SelectSeq(order, selected)
         IN  [i \in 1..Len(rows) |->
                 Subscriber(db[rows[i]].screen_name,
                            db[rows[i]].email_address)]

\* Yield screen name and email address of each eligible user: those of the
\* ids whose row has an address, is initialized, has the address verified,
\* and is neither suspended nor deleted.  order is the order in which the
\* database returns the rows of the user table.
_get_subscriber_details(db, user_ids, order) ==
    IF user_ids = {} THEN <<>>
    ELSE LET selected(u) ==
                 /\ u \in user_ids
                 /\ db[u].email_address # None
                 /\ db[u].initialized = TRUE
                 /\ db[u].email_address_verified = TRUE
                 /\ db[u].suspended = FALSE
                 /\ db[u].deleted = FALSE
             rows == SelectSeq(order, selected)
         IN  [i \in 1..Len(rows) |->
                 Subscriber(db[rows[i]].screen_name,
                            db[rows[i]].email_address)]

\* Subscribers taken from every list.
get_subscribers_of_any_list(subs, db, list_id, order) ==
    LET subscriber_ids == {s[1] : s \in subs}
    IN  _get_subscriber_details(db, subscriber_ids, order)

\* get_subscribers: the user ids of the subscriptions (DbSubscription) to
\* that list, as a set, and the details of those users.
get_subscribers(subs, db, list_id, order) ==
    LET subscriber_ids == {s[1] : s \in {s \in subs : s[2] = list_id}}
    IN  _get_subscriber_details(db, subscriber_ids, order)

\* newsletter_command_service.unsubscribe
unsubscribe(subs, user_id, list_id) == subs \ {<<user_id, list_id>>}

\* A user subscribes to a list.
CallSubscribe(user_id, list_id) ==
    /\ <<user_id, list_id>> \notin subscriptions
    /\ subscriptions' = subscribe(subscriptions, user_id, list_id)
    /\ site' = Call("subscribe", <<user_id, list_id>>, Returned(None, <<>>))
    /\ UNCHANGED <<accounts, tokens, parties, app, shop>>
    /\ UNCHANGED announceVars

\* A user unsubscribes from a list.
CallUnsubscribe(user_id, list_id) ==
    /\ <<user_id, list_id>> \in subscriptions
    /\ subscriptions' = unsubscribe(subscriptions, user_id, list_id)
    /\ site' = Call("unsubscribe", <<user_id, list_id>>, Returned(None, <<>>))
    /\ UNCHANGED <<accounts, tokens, parties, app, shop>>
    /\ UNCHANGED announceVars

\* The subscribers of a list are asked for.
CallGetSubscribers(list_id, order) ==
    /\ site' = Call("get_subscribers", list_id,
                    Returned(get_subscribers(subscriptions, accounts, list_id,
                                             order), <<>>))
    /\ UNCHANGED <<accounts, tokens, subscriptions, parties, app, shop>>
    /\ UNCHANGED announceVars

-----------------------------------------------------------------------------
(* byceps.application: the template context processor of a site *)

SiteIDs == {"site1", "site2"}

\* Calls of the import-based lookup for one site, at most.
MaxImports == 2

\* What the module sites.<site_id>.extension holds under the name
\* template_context_processor: nothing (None), an object that is not
\* callable, or one of two callables.
ExtensionAttributes ==
    {NoObject} \cup [callable : {FALSE}, name : {"x"}]
               \cup [callable : {TRUE}, name : {"f", "g"}]

\* The module sites.<site_id>.extension as the import finds it: not found,
\* or found with what it holds.
ExtensionModules ==
    [found : {FALSE}, template_context_processor : {NoObject}]
        \cup [found : {TRUE}, template_context_processor : ExtensionAttributes]

\* No site package has an extension module.
NoExtensions ==
    [s \in SiteIDs |-> [found |-> FALSE, template_context_processor |-> NoObject]]

\* The site application after _init_site_app: no processor is cached.
\* extensions are the extension modules of the site packages, imports the
\* values the import-based lookup returned, per site, in order.
SiteApp(extensions) ==
    [_site_context_processors |-> EmptyDict,
     extensions |-> extensions,
     imports |-> [s \in SiteIDs |-> <<>>]]

\* callable(obj)
callable(obj) == obj # NoObject /\ obj.callable

\* _find_site_template_context_processor: the callable named
\* template_context_processor of the module sites.<site_id>.extension; None
\* if there is no such module, if it has no such name, or if what it holds
\* is not callable.
_find_site_template_context_processor(extensions, site_id) ==
    LET module            == extensions[site_id]
        context_processor == module.template_context_processor
    IN  IF ~module.found THEN NoObject
        ELSE IF context_processor = NoObject THEN NoObject
        ELSE IF ~callable(context_processor) THEN NoObject
        ELSE context_processor

\* What a call of the cached lookup does: the value it returns and the
\* application it leaves.
Found(value, application) == [value |-> value, app |-> application]

\* The cached lookup taking a cached None for nothing cached.
_find_site_template_context_processor_cached_unless_none(application, site_id) ==
    LET cache == application._site_context_processors
    IN  IF site_id \in DOMAIN cache /\ cache[site_id] # NoObject
            THEN Found(cache[site_id], application)
        ELSE LET context_processor ==
                     _find_site_template_context_processor(
                         application.extensions, site_id)
             IN  Found(context_processor,
                     [application EXCEPT
                         !._site_context_processors =
                             [s \in DOMAIN cache \cup {site_id} |->
                                 IF s = site_id THEN context_processor
                                                ELSE cache[s]],
                         !.imports[site_id] = Append(@, context_processor)])

\* _find_site_template_context_processor_cached: the processor cached for
\* the site if there is an entry for it (None is a valid entry); else the
\* processor is looked up, cached and returned.
_find_site_template_context_processor_cached(application, site_id) ==
    LET cache == application._site_context_processors
    IN  IF site_id \in DOMAIN cache
            THEN Found(cache[site_id], application)
        ELSE LET context_processor ==
                     _find_site_template_context_processor(
                         application.extensions, site_id)
             IN  Found(context_processor,
                     [application EXCEPT
                         !._site_context_processors =
                             [s \in DOMAIN cache \cup {site_id} |->
                                 IF s = site_id THEN context_processor
                                                ELSE cache[s]],
                         !.imports[site_id] = Append(@, context_processor)])

\* A request to a site needs the site's template context.
CallFindProcessorCached(site_id) ==
    LET r == _find_site_template_context_processor_cached(app, site_id)
    IN  /\ Len(app.imports[site_id]) < MaxImports
        /\ app' = r.app
        /\ site' = Call("_find_site_template_context_processor_cached",
                        site_id, Returned(r.value, <<>>))
        /\ UNCHANGED <<accounts, tokens, subscriptions, parties, shop>>
        /\ UNCHANGED announceVars

\* The package of a site is deployed anew: its extension module appears,
\* changes or goes away.
DeployExtension(site_id, module) ==
    /\ app.extensions[site_id] # module
    /\ app' = [app EXCEPT !.extensions[site_id] = module]
    /\ UNCHANGED <<accounts, tokens, subscriptions, parties, site, shop>>
    /\ UNCHANGED announceVars

-----------------------------------------------------------------------------
(* byceps.services.shop.order.action_service *)

\* Rows of the order action table.
MaxOrderActions == 2

\* Line items of an order.
MaxOrderItems == 2

ArticleNumbers == {"A-01", "A-02"}

OrderIDs == {"o1"}

\* The line items of an order: an article and the quantity ordered.
OrderItems == [article_number : ArticleNumbers, quantity : {1, 2}]

\* The orders: an order has one line item per article ordered (the order
\* form has one quantity per article).
Orders ==
    {[id |-> id, items |-> items] :
        id \in OrderIDs,
        items \in {s \in UNION {[1..n -> OrderItems] : n \in 0..MaxOrderItems} :
                      \A i, j \in DOMAIN s :
                          s[i].article_number = s[j].article_number => i = j}}

\* PROCEDURES_BY_NAME: the procedures registered, by name.
PROCEDURES_BY_NAME ==
    [award_badge |-> "award_badge", create_tickets |-> "create_tickets"]

\* The procedure names an order action may be created with: any string.
ProcedureNames == {"award_badge", "create_tickets", "ship_parcel"}

ActionParameters == {[badge_id |-> "b1"], [category_id |-> "c1"]}

\* The shop before any order action is created.
NoShop == [actions |-> <<>>, orders |-> EmptyDict]

\* OrderAction(article_number, procedure, parameters), stored under the
\* next id.
OrderAction(id, article_number, procedure, parameters) ==
    [id |-> id, article_number |-> article_number, procedure |-> procedure,
     parameters |-> parameters]

\* create_order_action: the action is added to the table.
create_order_action(table, article_number, procedure, parameters) ==
    Append(table, OrderAction(Len(table) + 1, article_number, procedure,
                              parameters))

\* order_service.find_order_with_details
find_order_with_details(orders, order_id) == orders[order_id]

\* _get_actions: the order actions for those article numbers.
_get_actions(table, article_numbers) ==
    LET wanted(action) == action.article_number \in article_numbers
    IN  SelectSeq(table, wanted)

\* procedure(order, article_number, article_quantity, params): a call of the
\* procedure of an order action.
Invocation(procedure, order, action, article_quantity) ==
    [procedure |-> procedure, order_id |-> order.id, action_id |-> action.id,
     article_number |-> action.article_number,
     article_quantity |-> article_quantity, params |-> action.parameters]

\* _get_procedure: the procedure registered under that name; for a name
\* that is not registered the exception is to be raised, and building its
\* message from names the function does not have raises NameError.
_get_procedure(name) ==
    LET procedure == DictGet(PROCEDURES_BY_NAME, name)
    IN  IF procedure = None THEN Raised("NameError", <<>>)
        ELSE Returned(procedure, <<>>)

\* What execute_order_actions did: the exception that left it (or None),
\* the lookups of actions it made and the procedures it invoked, in order.
Executed(exc, lookups, invoked) ==
    [exc |-> exc, value |-> [lookups |-> lookups, invoked |-> invoked]]

\* quantities_by_article_number: the quantity of the last line item of
\* each article.
QuantitiesByArticleNumber(items) ==
    [a \in {items[i].article_number : i \in DOMAIN items} |->
        LET last == CHOOSE i \in DOMAIN items :
                        /\ items[i].article_number = a
                        /\ \A j \in DOMAIN items :
                               items[j].article_number = a => j <= i
        IN  items[last].quantity]

\* The loop over the actions: each one's procedure is looked up and called;
\* the first name that is not registered raises and ends the loop.
ExecuteEach(order, actions, quantities) ==
    LET unregistered == {k \in 1..Len(actions) :
                            _get_procedure(actions[k].procedure).exc # None}
        stop == IF unregistered = {} THEN Len(actions) + 1
                ELSE CHOOSE k \in unregistered :
                         \A j \in unregistered : k <= j
        invoked ==
            [k \in 1..(stop - 1) |->
                Invocation(_get_procedure(actions[k].procedure).value, order,
                           actions[k],
                           quantities[actions[k].article_number])]
    IN  IF stop <= Len(actions)
            THEN Executed(_get_procedure(actions[stop].procedure).exc, 1,
                          invoked)
            ELSE Executed(None, 1, invoked)

\* Execution with one quantity, that of the first line item, for every
\* action.
execute_order_actions_first_quantity(orders, table, order_id) ==
    LET order           == find_order_with_details(orders, order_id)
        article_numbers ==
            {order.items[i].article_number : i \in DOMAIN order.items}
    IN  IF article_numbers = {} THEN Executed(None, 0, <<>>)
        ELSE ExecuteEach(order, _get_actions(table, article_numbers),
                         [a \in article_numbers |-> order.items[1].quantity])

\* execute_order_actions: execute the relevant actions for the order.
execute_order_actions(orders, table, order_id) ==
    LET order           == find_order_with_details(orders, order_id)
        article_numbers ==
            {order.items[i].article_number : i \in DOMAIN order.items}
    IN  IF article_numbers = {} THEN Executed(None, 0, <<>>)
        ELSE ExecuteEach(order, _get_actions(table, article_numbers),
                         QuantitiesByArticleNumber(order.items))

\* An administrator creates an order action.
CallCreateOrderAction(article_number, procedure, parameters) ==
    /\ Len(shop.actions) < MaxOrderActions
    /\ shop' = [shop EXCEPT !.actions =
                   create_order_action(@, article_number, procedure,
                                       parameters)]
    /\ site' = Call("create_order_action", article_number,
                    Returned(None, <<>>))
    /\ UNCHANGED <<accounts, tokens, subscriptions, parties, app>>
    /\ UNCHANGED announceVars

\* An order is paid: its actions are executed.
CallExecuteOrderActions(order_id) ==
    /\ site' = Call("execute_order_actions", order_id,
                    execute_order_actions(shop.orders, shop.actions, order_id))
    /\ UNCHANGED <<accounts, tokens, subscriptions, parties, app, shop>>
    /\ UNCHANGED announceVars

-----------------------------------------------------------------------------
(* byceps.blueprints.admin.webhook.views: create and update *)

\* Rows of the webhook table the administrators work on.
MaxAdminWebhooks == 2

\* The names of the events a webhook can select.
WEBHOOK_EVENT_NAMES ==
    {EVENT_TYPES_TO_NAMES[t] : t \in DOMAIN EVENT_TYPES_TO_NAMES}

\* The names of the checkboxes a submitted form has checked; a request may
\* carry a name that is no event name.
CheckedNames ==
    {{}, {"user-badge-awarded"}, {"user-account-created", "no-such-event"}}

\* The forms submitted to create and update: valid ones that enable a
\* webhook selecting nothing, disable one selecting an event and enable one
\* selecting an event, and one that is not valid.  A request to create may
\* carry a value for enabled and for the text prefix as well.
WebhookForms ==
    {form \in [valid : BOOLEAN, checked : CheckedNames,
               format : {" weitersager "},
               url : {" https://hooks.example/new "},
               text_prefix : {"  [N] "}, description : {" orga log "},
               enabled : BOOLEAN] :
        /\ form.valid => (form.enabled <=> form.checked # {"user-badge-awarded"})
        /\ ~form.valid => form.enabled /\ form.checked = {"user-badge-awarded"}}

\* webhook_service.create_outgoing_webhook: a new row with the next id.
create_outgoing_webhook(db, event_selectors, format, url, enabled, description) ==
    Append(db, [id |-> Len(db) + 1, scope |-> "any", scope_id |-> None,
                format |-> format, url |-> url, enabled |-> enabled,
                text_prefix |-> None, extra_fields |-> EmptyDict,
                description |-> description,
                event_selectors |-> event_selectors])

\* webhook_service.update_outgoing_webhook: the row with that id gets the
\* values given.
update_outgoing_webhook(db, webhook_id, event_selectors, format, url, enabled, text_prefix, description) ==
    [i \in 1..Len(db) |->
        IF db[i].id = webhook_id
            THEN [db[i] EXCEPT !.event_selectors = event_selectors,
                               !.format = format, !.url = url,
                               !.enabled = enabled,
                               !.text_prefix = text_prefix,
                               !.description = description]
            ELSE db[i]]

\* The event names whose field of the form is checked.
EventSelectorsOf(form) ==
    {event_name \in WEBHOOK_EVENT_NAMES : event_name \in form.checked}

\* What a request to the webhook admin that is about a form did.
FormRequest(action, webhook_id, status, flash, form) ==
    [action |-> action, webhook_id |-> webhook_id, status |-> status,
     posts |-> <<>>, log |-> <<>>, flash |-> flash, form |-> form]

\* What a view does to the webhook table, and its answer.
Administrated(db, answer) == [webhooks |-> db, admin |-> answer]

\* The view create taking the enabled flag from the form.
webhook_admin_create_enabled_from_form(db, form) ==
    IF ~form.valid
        THEN Administrated(db, FormRequest("create", 0, 200, <<>>, form))
    ELSE Administrated(
             create_outgoing_webhook(db, EventSelectorsOf(form),
                                     strip(form.format), strip(form.url),
                                     form.enabled, strip(form.description)),
             FormRequest("create", Len(db) + 1, 302,
                         <<<<"success", "Webhook has been created.">>>>, form))

\* POST /: create a webhook.  An invalid form is shown again; else the
\* webhook is stored, disabled, with the events checked.
webhook_admin_create(db, form) ==
    IF ~form.valid
        THEN Administrated(db, FormRequest("create", 0, 200, <<>>, form))
    ELSE LET event_selectors == EventSelectorsOf(form)
             format          == strip(form.format)
             url             == strip(form.url)
             description     == strip(form.description)
             enabled         == FALSE
         IN  Administrated(
                 create_outgoing_webhook(db, event_selectors, format, url,
                                         enabled, description),
                 FormRequest("create", Len(db) + 1, 302,
                             <<<<"success", "Webhook has been created.">>>>,
                             form))

\* The view update adding the events checked to those selected before.
webhook_admin_update_merging(db, webhook_id, form) ==
    LET found == _get_webhook_or_404(db, webhook_id)
    IN  IF found.exc # None
            THEN Administrated(db, FormRequest("update", webhook_id, 404,
                                               <<>>, form))
        ELSE IF ~form.valid
            THEN Administrated(db, FormRequest("update", webhook_id, 200,
                                               <<>>, form))
        ELSE Administrated(
                 update_outgoing_webhook(
                     db, found.value.id,
                     found.value.event_selectors \cup EventSelectorsOf(form),
                     strip(form.format), strip(form.url), form.enabled,
                     lstrip(form.text_prefix), strip(form.description)),
                 FormRequest("update", webhook_id, 302,
                             <<<<"success", "Webhook has been updated.">>>>,
                             form))

\* The view update storing the form before it is validated.
webhook_admin_update_unvalidated(db, webhook_id, form) ==
    LET found == _get_webhook_or_404(db, webhook_id)
        stored ==
            update_outgoing_webhook(
                db, found.value.id, EventSelectorsOf(form),
                strip(form.format), strip(form.url), form.enabled,
                lstrip(form.text_prefix), strip(form.description))
    IN  IF found.exc # None
            THEN Administrated(db, FormRequest("update", webhook_id, 404,
                                               <<>>, form))
        ELSE IF ~form.valid
            THEN Administrated(stored, FormRequest("update", webhook_id, 200,
                                                   <<>>, form))
        ELSE Administrated(stored,
                 FormRequest("update", webhook_id, 302,
                             <<<<"success", "Webhook has been updated.">>>>,
                             form))

\* POST /webhooks/<webhook_id>: update the webhook.  404 for an id without
\* a webhook; an invalid form is shown again; else the webhook gets the
\* values of the form, the events checked in place of those it selected.
webhook_admin_update(db, webhook_id, form) ==
    LET found == _get_webhook_or_404(db, webhook_id)
    IN  IF found.exc # None
            THEN Administrated(db, FormRequest("update", webhook_id, 404,
                                               <<>>, form))
        ELSE IF ~form.valid
            THEN Administrated(db, FormRequest("update", webhook_id, 200,
                                               <<>>, form))
        ELSE LET webhook         == found.value
                 event_selectors == EventSelectorsOf(form)
                 format          == strip(form.format)
                 url             == strip(form.url)
                 text_prefix     == lstrip(form.text_prefix)
                 description     == strip(form.description)
                 enabled         == form.enabled
             IN  Administrated(
                     update_outgoing_webhook(db, webhook.id, event_selectors,
                                             format, url, enabled,
                                             text_prefix, description),
                     FormRequest("update", webhook_id, 302,
                                 <<<<"success", "Webhook has been updated.">>>>,
                                 form))

\* A request to create a webhook arrives.
AdminCreate(form) ==
    LET r == webhook_admin_create(webhooks, form)
    IN  /\ Len(webhooks) < MaxAdminWebhooks
        /\ webhooks' = r.webhooks
        /\ admin' = r.admin
        /\ UNCHANGED <<queue, run, network>>
        /\ UNCHANGED siteVars

\* A request to update a webhook arrives.
AdminUpdate(webhook_id, form) ==
    LET r == webhook_admin_update(webhooks, webhook_id, form)
    IN  /\ webhooks' = r.webhooks
        /\ admin' = r.admin
        /\ UNCHANGED <<queue, run, network>>
        /\ UNCHANGED siteVars

-----------------------------------------------------------------------------
(* The pipeline: events are published and their jobs run *)

PipelineEvents ==
    {e \in Events :
        /\ e.type \in {"UserAccountCreated", "UserBadgeAwarded",
                       "BoardPostingCreated"}
        /\ e.initiator_id = "u1"}

\* The site is not used: its tables are empty.
SiteAtRest ==
    /\ accounts = EmptyDict
    /\ tokens = EmptyDict
    /\ subscriptions = {}
    /\ parties = EmptyDict
    /\ site = NoCall
    /\ app = SiteApp(NoExtensions)
    /\ shop = NoShop

Init ==
    /\ webhooks \in RegistriesOf(MaxWebhooks, SelectionConfigs)
    /\ queue = <<>>
    /\ run = Idle
    /\ admin = NoRequest
    /\ network = AllReachable(webhooks)
    /\ SiteAtRest

Next ==
    \/ \E event \in PipelineEvents : Publish(event)
    \/ RunJob

Spec == Init /\ [][Next]_vars

(* A single job: one event of any type is published and its job runs *)

PublishOnce(event) ==
    /\ queue = <<>>
    /\ run.status = "idle"
    /\ Publish(event)

InitAnnounce ==
    /\ webhooks \in RegistriesOf(MaxTargets, WebhookConfigs)
    /\ queue = <<>>
    /\ run = Idle
    /\ admin = NoRequest
    /\ network = AllReachable(webhooks)
    /\ SiteAtRest

NextAnnounce ==
    \/ \E event \in Events : PublishOnce(event)
    \/ RunJob
    \/ \E webhook_id \in 1..(MaxTargets + 1) : test(webhook_id)

SpecAnnounce == InitAnnounce /\ [][NextAnnounce]_vars

(* Confirmation: tokens are created, visitors come with tokens *)

\* The registry is empty and nothing is published.
AnnounceAtRest ==
    /\ webhooks = <<>>
    /\ queue = <<>>
    /\ run = Idle
    /\ admin = NoRequest
    /\ network = <<>>

InitConfirm ==
    /\ AnnounceAtRest
    /\ accounts = EAC_USERS
    /\ tokens = EmptyDict
    /\ subscriptions = {}
    /\ parties = EmptyDict
    /\ site = NoCall
    /\ app = SiteApp(NoExtensions)
    /\ shop = NoShop

NextConfirm ==
    \/ \E user_id \in DOMAIN accounts : CreateConfirmationToken(user_id)
    \/ \E token \in VisitorTokens : ConfirmRequest(token)

SpecConfirm == InitConfirm /\ [][NextConfirm]_vars

(* Parties: the service is asked for parties *)

InitParty ==
    /\ AnnounceAtRest
    /\ accounts = EmptyDict
    /\ tokens = EmptyDict
    /\ subscriptions = {}
    /\ parties \in PartyTables
    /\ site = NoCall
    /\ app = SiteApp(NoExtensions)
    /\ shop = NoShop

NextParty ==
    \/ \E party_id \in AskedPartyIDs : CallFindParty(party_id)
    \/ \E party_id \in AskedPartyIDs : CallGetParty(party_id)

SpecParty == InitParty /\ [][NextParty]_vars

(* Delivery: the endpoints answer, fail, or cannot be reached *)

\* Enabled webhooks of the two formats, the IRC ones with a channel.
DeliveryConfigs ==
    {c \in SelectionConfigs :
        /\ c.enabled
        /\ c.format = "weitersager" => c.extra_fields = [channel |-> "#a"]
        /\ c.format = "discord" => c.scope_pair = <<"board", "b1">>}

InitDelivery ==
    /\ webhooks \in RegistriesOf(MaxWebhooks, DeliveryConfigs)
    /\ queue = <<>>
    /\ run = Idle
    /\ admin = NoRequest
    /\ network \in [{webhooks[i].url : i \in 1..Len(webhooks)}
                       -> NetworkOutcomes]
    /\ SiteAtRest

NextDelivery ==
    \/ \E event \in PipelineEvents : Publish(event)
    \/ RunJob
    \/ \E webhook_id \in 1..(MaxWebhooks + 1) : test(webhook_id)

SpecDelivery == InitDelivery /\ [][NextDelivery]_vars

(* The worker: every waiting job is taken at some time *)

PipelineJobs ==
    {[func |-> AnnouncerOf[e.type], event |-> e] : e \in PipelineEvents}

InQueue(job) == \E i \in 1..Len(queue) : queue[i] = job

\* An event happens and is published; events are told apart by what they
\* carry, so one that waits in the queue is not published again.
PublishPending(event) ==
    /\ Len(queue) < MaxPending
    /\ ~InQueue([func |-> AnnouncerOf[event.type], event |-> event])
    /\ queue' = enqueue(queue, AnnouncerOf[event.type], event)
    /\ UNCHANGED <<webhooks, run, admin, network>>
    /\ UNCHANGED siteVars

\* That job leaves the queue.
TakeJob(job) ==
    \E i \in 1..Len(queue) :
        /\ queue[i] = job
        /\ queue' = SubSeq(queue, 1, i - 1) \o SubSeq(queue, i + 1, Len(queue))

\* The worker takes that job from the queue and executes it.
RunJobOf(job) ==
    /\ TakeJob(job)
    /\ run' = ExecuteJob(webhooks, job)
    /\ UNCHANGED <<webhooks, admin, network>>
    /\ UNCHANGED siteVars

InitWorker ==
    /\ webhooks \in RegistriesOf(MaxTargets, DeliveryConfigs)
    /\ queue = <<>>
    /\ run = Idle
    /\ admin = NoRequest
    /\ network = AllReachable(webhooks)
    /\ SiteAtRest

NextWorker ==
    \/ \E event \in PipelineEvents : PublishPending(event)
    \/ \E job \in PipelineJobs : RunJobOf(job)

\* The worker is scheduled fairly: a job that waits is taken at some time.
\* The only step that takes a job from the queue is RunJobOf, which
\* executes it.
SpecWorker ==
    /\ InitWorker
    /\ [][NextWorker]_vars
    /\ \A job \in PipelineJobs : WF_queue(TakeJob(job))

(* The site: visitors create accounts, the jobs of the events run *)

\* Enabled IRC webhooks with a channel.
CreationConfigs ==
    {c \in SelectionConfigs :
        c.format = "weitersager" /\ c.enabled /\ c.extra_fields # EmptyDict}

InitCreate ==
    /\ webhooks \in RegistriesOf(MaxTargets, CreationConfigs)
    /\ queue = <<>>
    /\ run = Idle
    /\ admin = NoRequest
    /\ network = AllReachable(webhooks)
    /\ SiteAtRest

NextCreate ==
    \/ \E enabled \in BOOLEAN, newsletter_list_id \in NewsletterListIDs,
          form \in UserCreateForms, queue_up \in BOOLEAN :
            CreateRequest(enabled, newsletter_list_id, form, queue_up)
    \/ RunJob

SpecCreate == InitCreate /\ [][NextCreate]_vars

(* Newsletters: users subscribe and unsubscribe, the subscribers are asked for *)

InitNewsletter ==
    /\ AnnounceAtRest
    /\ accounts \in SubscriberTables
    /\ tokens = EmptyDict
    /\ subscriptions = {}
    /\ parties = EmptyDict
    /\ site = NoCall
    /\ app = SiteApp(NoExtensions)
    /\ shop = NoShop

NextNewsletter ==
    \/ \E user_id \in SubscriberIDs, list_id \in ListIDs :
           CallSubscribe(user_id, list_id)
    \/ \E user_id \in SubscriberIDs, list_id \in ListIDs :
           CallUnsubscribe(user_id, list_id)
    \/ \E list_id \in ListIDs, order \in RowOrders(accounts) :
           CallGetSubscribers(list_id, order)

SpecNewsletter == InitNewsletter /\ [][NextNewsletter]_vars

(* Template context: requests to sites look up the context processor *)

InitContext ==
    /\ AnnounceAtRest
    /\ accounts = EmptyDict
    /\ tokens = EmptyDict
    /\ subscriptions = {}
    /\ parties = EmptyDict
    /\ site = NoCall
    /\ app \in {SiteApp(extensions) : extensions \in [SiteIDs -> ExtensionModules]}
    /\ shop = NoShop

NextContext ==
    \/ \E site_id \in SiteIDs : CallFindProcessorCached(site_id)
    \/ \E site_id \in SiteIDs, module \in ExtensionModules :
           DeployExtension(site_id, module)

SpecContext == InitContext /\ [][NextContext]_vars

(* The shop: order actions are created, the actions of an order executed *)

InitShop ==
    /\ AnnounceAtRest
    /\ accounts = EmptyDict
    /\ tokens = EmptyDict
    /\ subscriptions = {}
    /\ parties = EmptyDict
    /\ site = NoCall
    /\ app = SiteApp(NoExtensions)
    /\ shop \in {[actions |-> <<>>, orders |-> orders] :
                    orders \in {[id \in {order.id} |-> order] : order \in Orders}}

NextShop ==
    \/ \E article_number \in ArticleNumbers, procedure \in ProcedureNames,
          parameters \in ActionParameters :
            CallCreateOrderAction(article_number, procedure, parameters)
    \/ \E order_id \in OrderIDs : CallExecuteOrderActions(order_id)

SpecShop == InitShop /\ [][NextShop]_vars

(* The webhook admin: webhooks are created, updated and tested while an
   event is published and its job runs *)

\* The webhooks stored before: IRC webhooks with a channel.
AdminConfigs ==
    {c \in SelectionConfigs :
        c.format = "weitersager" /\ c.extra_fields = [channel |-> "#a"]}

\* The events published: one of each selector set.
AdminEvents ==
    {e \in PipelineEvents :
        e.type \in {"UserAccountCreated", "UserBadgeAwarded"}}

\* The URLs requests go to: those of the webhooks stored before and those
\* of the forms.
AdminUrls ==
    {Url(id) : id \in 1..MaxAdminWebhooks}
        \cup {strip(form.url) : form \in WebhookForms}

InitAdmin ==
    /\ webhooks \in RegistriesOf(MaxTargets, AdminConfigs)
    /\ queue = <<>>
    /\ run = Idle
    /\ admin = NoRequest
    /\ network = [url \in AdminUrls |-> Response(204)]
    /\ SiteAtRest

NextAdmin ==
    \/ \E form \in WebhookForms : AdminCreate(form)
    \/ \E webhook_id \in 1..(MaxAdminWebhooks + 1), form \in WebhookForms :
           AdminUpdate(webhook_id, form)
    \/ \E webhook_id \in 1..(MaxAdminWebhooks + 1) : test(webhook_id)
    \/ \E event \in AdminEvents : PublishOnce(event)
    \/ RunJob

SpecAdmin == InitAdmin /\ [][NextAdmin]_vars

-----------------------------------------------------------------------------
(* Properties of the webhook selection *)

\* The job that ran last got as far as its announcer's text.
Announced == run.status # "idle" /\ run.text # None

\* The event name under which the last job looked up its webhooks.
RunEventName == get_name_for_event(run.event)

\* The format of the webhooks the last job's announcer looks up.
RunFormat ==
    IF run.event.type = "BoardPostingCreated" THEN "discord" ELSE "weitersager"

\* The number of requests the last job posted to the webhook.
CallsTo(webhook) ==
    Cardinality({k \in 1..Len(run.posts) : run.posts[k].url = webhook.url})

\* C1: a webhook whose selectors do not hold the name of the event of a job
\* gets no request from that job, whether the job looked up the Discord or
\* the IRC webhooks.
C1_UnsubscribedNeverCalled ==
    run.status # "idle" =>
        \A i \in 1..Len(webhooks) :
            RunEventName \notin webhooks[i].event_selectors
                => CallsTo(webhooks[i]) = 0

\* A job called one webhook and passed over an enabled one of the same
\* format that does not select the event.
C1_Witness ==
    /\ run.status = "done"
    /\ \E i, j \in 1..Len(webhooks) :
        /\ CallsTo(webhooks[i]) = 1
        /\ webhooks[j].enabled
        /\ webhooks[j].format = webhooks[i].format
        /\ RunEventName \notin webhooks[j].event_selectors
        /\ CallsTo(webhooks[j]) = 0

\* C2: a disabled webhook gets no request from a job, whatever its
\* selectors hold.
C2_DisabledNeverCalled ==
    run.status # "idle" =>
        \A i \in 1..Len(webhooks) :
            ~webhooks[i].enabled => CallsTo(webhooks[i]) = 0

\* A job called one webhook and passed over a disabled one of the same
\* format that selects the event.
C2_Witness ==
    /\ run.status = "done"
    /\ \E i, j \in 1..Len(webhooks) :
        /\ CallsTo(webhooks[i]) = 1
        /\ ~webhooks[j].enabled
        /\ webhooks[j].format = webhooks[i].format
        /\ RunEventName \in webhooks[j].event_selectors
        /\ CallsTo(webhooks[j]) = 0

\* C3: where the announcer filters by scope (board postings), an enabled
\* Discord webhook selecting the event is called exactly if both its scope
\* and its scope id are those of the event; one that agrees in only one of
\* the two is not called.
C3_ScopeAndIdMustMatch ==
    (run.status # "idle" /\ run.event.type = "BoardPostingCreated") =>
        \A i \in 1..Len(webhooks) :
            (webhooks[i].enabled /\ webhooks[i].format = "discord"
                /\ RunEventName \in webhooks[i].event_selectors)
            => (CallsTo(webhooks[i]) > 0
                    <=> (webhooks[i].scope = "board"
                         /\ webhooks[i].scope_id = run.event.board_id))

\* A board job found two enabled, subscribed Discord webhooks, one agreeing
\* with the event in the scope only and one in the scope id only, and
\* called neither.
C3_Witness ==
    /\ run.status = "done"
    /\ run.event.type = "BoardPostingCreated"
    /\ run.posts = <<>>
    /\ \E i, j \in 1..Len(webhooks) :
        /\ webhooks[i].enabled /\ webhooks[j].enabled
        /\ webhooks[i].format = "discord" /\ webhooks[j].format = "discord"
        /\ RunEventName \in webhooks[i].event_selectors
        /\ RunEventName \in webhooks[j].event_selectors
        /\ webhooks[i].scope = "board"
        /\ webhooks[i].scope_id # run.event.board_id
        /\ webhooks[j].scope # "board"
        /\ webhooks[j].scope_id = run.event.board_id

-----------------------------------------------------------------------------
(* Properties of the dispatcher *)

\* The webhook a request went to.
WebhookOf(post) ==
    webhooks[CHOOSE i \in 1..Len(webhooks) : webhooks[i].url = post.url]

\* The text a payload carries.
PayloadText(post) ==
    IF WebhookOf(post).format = "discord" THEN post.json.content
    ELSE post.json.text

\* The text the claim expects a webhook to be sent for a message.
PrefixedText(webhook, message) ==
    IF webhook.text_prefix = None \/ webhook.text_prefix = ""
        THEN message
        ELSE webhook.text_prefix \o message

\* The requests of the last job and of the last admin test, each with the
\* message its caller passed to call_webhook.
Dispatched ==
    {<<run.posts[k], run.text>> : k \in 1..Len(run.posts)}
    \cup {<<admin.posts[k], TEST_TEXT>> : k \in 1..Len(admin.posts)}

\* C4: the text of every payload is the webhook's prefix followed by the
\* message if the webhook has a non-empty prefix, and the message itself if
\* the prefix is None or empty; prefix "[X] " and message "hello" give
\* "[X] hello".
C4_PrefixPrepended ==
    /\ \A d \in Dispatched :
           PayloadText(d[1]) = PrefixedText(WebhookOf(d[1]), d[2])
    /\ \A i \in 1..Len(webhooks) :
           webhooks[i].text_prefix = "[X] "
               => PayloadText(call_webhook(webhooks[i], "hello").posts[1])
                      = "[X] hello"

\* A job's request to a webhook with the prefix "[X] " carries the prefix
\* and then the announcer's text.
C4_Witness ==
    /\ run.status = "done"
    /\ \E k \in 1..Len(run.posts) :
        /\ WebhookOf(run.posts[k]).text_prefix = "[X] "
        /\ StartsWith(PayloadText(run.posts[k]), "[X] ")
        /\ PayloadText(run.posts[k]) = "[X] " \o run.text

\* C5: a payload for a Discord webhook is the record of the one key content;
\* a payload for an IRC (weitersager) webhook is the record of the two keys
\* channel and text, the channel being the configured one or None.
C5_PayloadShape ==
    \A d \in Dispatched :
        LET webhook == WebhookOf(d[1])
            json    == d[1].json
        IN  /\ webhook.format = "discord" =>
                /\ DOMAIN json = {"content"}
                /\ json.content = PrefixedText(webhook, d[2])
            /\ webhook.format = "weitersager" =>
                /\ DOMAIN json = {"channel", "text"}
                /\ json.text = PrefixedText(webhook, d[2])
                /\ json.channel =
                       IF "channel" \in DOMAIN webhook.extra_fields
                           THEN webhook.extra_fields.channel
                           ELSE None

\* The admin test posted to an IRC webhook without a channel: the payload
\* holds the channel None.
C5_Witness ==
    /\ admin.status = 204
    /\ \E k \in 1..Len(admin.posts) :
        /\ WebhookOf(admin.posts[k]).format = "weitersager"
        /\ WebhookOf(admin.posts[k]).extra_fields = EmptyDict
        /\ admin.posts[k].json = [channel |-> None, text |-> TEST_TEXT]

-----------------------------------------------------------------------------
(* Properties of the IRC lookup *)

\* The enabled IRC webhooks selecting the last job's event, in table order.
IrcSelected ==
    get_enabled_outgoing_webhooks(webhooks, RunEventName, "weitersager")

\* A webhook's channel, or None.
ChannelOf(webhook) == DictGet(webhook.extra_fields, "channel")

\* The position of a webhook in a list.
PositionIn(whs, webhook) == CHOOSE i \in 1..Len(whs) : whs[i] = webhook

\* The table with its rows in another order.
Reordered(p) == [i \in 1..Len(webhooks) |-> webhooks[p[i]]]

\* C6 as claimed: a job whose announcer has its text and whose event an
\* enabled IRC webhook without a channel selects does not fail; it logs the
\* warning and posts to that webhook with an empty or None channel.
C6_NoChannelStillSent ==
    (Announced /\ RunFormat = "weitersager") =>
        \A i \in 1..Len(webhooks) :
            (/\ webhooks[i].enabled
             /\ webhooks[i].format = "weitersager"
             /\ RunEventName \in webhooks[i].event_selectors
             /\ ~Truthy(ChannelOf(webhooks[i])))
            => /\ run.status = "done"
               /\ CallsTo(webhooks[i]) = 1
               /\ \E k \in 1..Len(run.log) :
                      run.log[k] = "No channel specified with IRC webhook."
               /\ \A k \in 1..Len(run.posts) :
                      run.posts[k].url = webhooks[i].url
                          => ~Truthy(run.posts[k].json.channel)

\* C7: the list get_webhooks_for_irc returned to a job holds each enabled
\* IRC webhook selecting the event once and nothing else, in non-decreasing
\* order of the channel names, webhooks of equal channel name in their
\* lookup order; with distinct channel names it is the same list for every
\* order of the table.
C7_SortedStablePermutation ==
    (run.status = "done" /\ RunFormat = "weitersager") =>
        LET res == run.lookup
            sel == IrcSelected
        IN  /\ Len(res) = Len(sel)
            /\ \A i \in 1..Len(sel) :
                   Cardinality({k \in 1..Len(res) : res[k] = sel[i]}) = 1
            /\ \A k \in 1..(Len(res) - 1) :
                   ~StrLess(ChannelOf(res[k + 1]), ChannelOf(res[k]))
            /\ \A k, l \in 1..Len(res) :
                   (k < l /\ ChannelOf(res[k]) = ChannelOf(res[l]))
                       => PositionIn(sel, res[k]) < PositionIn(sel, res[l])
            /\ (\A i, j \in 1..Len(sel) :
                    i # j => ChannelOf(sel[i]) # ChannelOf(sel[j]))
                   => \A p \in Permutations(1..Len(webhooks)) :
                          get_webhooks_for_irc(Reordered(p), run.event).value
                              = res

\* A job got two webhooks back in the order of their channels, which is not
\* the order of the table.
C7_Witness ==
    /\ run.status = "done"
    /\ RunFormat = "weitersager"
    /\ Len(run.lookup) = 2
    /\ run.lookup[1].id = 2
    /\ StrLess(ChannelOf(run.lookup[1]), ChannelOf(run.lookup[2]))

-----------------------------------------------------------------------------
(* Properties of the announcers *)

\* The event types announced on IRC, each with a user as the actor.
IrcEventTypes == PlainUserEventTypes \cup {"UserScreenNameChanged", "UserBadgeAwarded"}

\* C8: the announcer of a "user account created" event without an
\* initiator does not raise on account of the missing initiator and does
\* not look one up: the only user looked up is the created one, and the
\* text starts with the actor name "Jemand", not with "None"; every request
\* of the job carries that text.
C8_CreatedByNobody ==
    (/\ run.status # "idle"
     /\ run.event.type = "UserAccountCreated"
     /\ run.event.initiator_id = None)
    => /\ run.exc # "AttributeError"
       /\ run.text # None
       /\ run.found = <<run.event.user_id>>
       /\ StartsWith(run.text, "Jemand ")
       /\ ~StartsWith(run.text, "None")
       /\ run.text = "Jemand hat das Benutzerkonto \""
                         \o ScreenNames[run.event.user_id] \o "\" angelegt."
       /\ \A k \in 1..Len(run.posts) :
              PayloadText(run.posts[k])
                  = PrefixedText(WebhookOf(run.posts[k]), run.text)

\* The job of an account creation without an initiator posted its text.
C8_Witness ==
    /\ run.status = "done"
    /\ run.event.type = "UserAccountCreated"
    /\ run.event.initiator_id = None
    /\ Len(run.posts) = 1
    /\ Contains(PayloadText(run.posts[1]), "Jemand hat das Benutzerkonto")

\* C9 as claimed: the job of any IRC-announced event without an initiator
\* gets through its announcer, with the placeholder "Jemand" as the actor.
C9_EveryAnnouncerFallsBack ==
    (/\ run.status # "idle"
     /\ run.event.type \in IrcEventTypes
     /\ run.event.initiator_id = None)
    => /\ run.exc # "AttributeError"
       /\ run.text # None
       /\ StartsWith(run.text, "Jemand ")

\* C10 as claimed: once the job of a "badge awarded" event has run, every
\* enabled IRC webhook selecting the event got exactly one request and no
\* other webhook got any, and every request names the badge and the user.
C10_BadgeOneCallEach ==
    (run.status # "idle" /\ run.event.type = "UserBadgeAwarded") =>
        /\ \A i \in 1..Len(webhooks) :
               CallsTo(webhooks[i]) =
                   IF /\ webhooks[i].enabled
                      /\ webhooks[i].format = "weitersager"
                      /\ RunEventName \in webhooks[i].event_selectors
                       THEN 1 ELSE 0
        /\ \A k \in 1..Len(run.posts) :
               /\ Contains(PayloadText(run.posts[k]),
                           BadgeLabels[run.event.badge_id])
               /\ Contains(PayloadText(run.posts[k]),
                           ScreenNames[run.event.user_id])

-----------------------------------------------------------------------------
(* Properties of publishing *)

\* C12: an event is published only after the change that produced it is
\* committed: the user of every job in the queue is in the user table, and
\* a request that got to send had stored the account before.  A failure of
\* the handler alters nothing that is committed: when send raises in the
\* creation of a user, the request fails, and the account is in the table
\* as it was stored; no step ever removes or changes a stored account.
C12_CommittedBeforePublished ==
    /\ [](\A i \in 1..Len(queue) : queue[i].event.user_id \in DOMAIN accounts)
    /\ []((site.action = "create" /\ \E k \in 1..Len(site.steps) :
                                        site.steps[k] = "send")
            => /\ site.steps[1] = "create_user"
               /\ site.steps[2] = "send"
               /\ site.user_id \in DOMAIN accounts)
    /\ []((site.action = "create" /\ site.exc # None)
            => /\ site.status = 500
               /\ site.user_id \in DOMAIN accounts
               /\ \E form \in UserCreateForms :
                      accounts[site.user_id] =
                          NewAccount(strip(form.screen_name),
                                     lower(strip(form.email_address))))
    /\ [][\A u \in DOMAIN accounts :
              u \in DOMAIN accounts' /\ accounts'[u] = accounts[u]]_vars

\* The creation of a user failed in send, with the job queue out of reach:
\* the account is stored, and no job is in the queue.
C12_Witness ==
    /\ site.action = "create"
    /\ site.exc = "ConnectionError"
    /\ site.status = 500
    /\ site.user_id \in DOMAIN accounts
    /\ queue = <<>>

\* The queue without its i-th job.
Without(q, i) == SubSeq(q, 1, i - 1) \o SubSeq(q, i + 1, Len(q))

\* C13: the step that publishes an event adds exactly one job to the queue,
\* the job of the event and of the announcer of its type, and does nothing
\* else: no user or badge is looked up, no text is composed and no request
\* is posted.  Lookup, text and requests for an event come about only in a
\* step in which the worker takes a job of that event from the queue.
C13_HandlerOnlyEnqueues ==
    [][/\ queue' # queue /\ Len(queue') >= Len(queue) =>
            /\ Len(queue') = Len(queue) + 1
            /\ SubSeq(queue', 1, Len(queue)) = queue
            /\ queue'[Len(queue')].func
                   = AnnouncerOf[queue'[Len(queue')].event.type]
            /\ run' = run
            /\ admin' = admin
       /\ run' # run =>
            \E i \in 1..Len(queue) :
                /\ queue[i].event = run'.event
                /\ queue' = Without(queue, i)
                /\ run' = ExecuteJob(webhooks, queue[i])]_vars

\* An event is published and its job waits: an enabled webhook selects the
\* event, and nothing has been looked up, composed or posted.
C13_Witness ==
    /\ Len(queue) = 1
    /\ run = Idle
    /\ \E i \in 1..Len(webhooks) :
           /\ webhooks[i].enabled
           /\ webhooks[i].format = "weitersager"
           /\ get_name_for_event(queue[1].event) \in webhooks[i].event_selectors

\* C14: with the worker scheduled fairly, every job that is in the queue
\* is taken from it and executed at some time, whatever other jobs are
\* published or executed before or after it; a job leaves the queue only by
\* being executed, and the execution of a job removes no other job.
C14_EveryJobRuns ==
    /\ \A job \in PipelineJobs :
           InQueue(job) ~> (~InQueue(job) /\ run = ExecuteJob(webhooks, job))
    /\ [][\A job \in PipelineJobs :
              (InQueue(job) /\ ~InQueue(job)') =>
                  /\ run' = ExecuteJob(webhooks, job)
                  /\ \A other \in PipelineJobs \ {job} :
                         InQueue(other) => InQueue(other)']_vars

\* The job of one event was executed while the job of another event waits.
C14_Witness ==
    /\ run.status # "idle"
    /\ Len(queue) = 1
    /\ queue[1].event # run.event
    /\ queue[1].event.type = "UserAccountCreated"
    /\ run.event.type = "UserBadgeAwarded"

-----------------------------------------------------------------------------
(* Properties of the delivery *)

\* The endpoint answered the request, with whatever status.
Answered(post) == post.outcome.exc = None

\* The endpoint answered the request with a 2xx status.
Delivered(post) ==
    Answered(post) /\ post.outcome.value.status_code \in 200..299

\* C15: one call of call_webhook posts exactly one request, to the URL of
\* the webhook; whatever status the endpoint answers with, 2xx or not, the
\* call returns without an exception.  So no webhook gets a second request
\* from a job, and a job fails after a request only if that request raised.
C15_OnePostStatusIgnored ==
    /\ \A i \in 1..Len(webhooks) :
           LET c == call_webhook(webhooks[i], TEST_TEXT)
           IN  /\ Len(c.posts) = 1
               /\ c.posts[1].url = webhooks[i].url
               /\ network[webhooks[i].url].exc = None => c.exc = None
    /\ run.status # "idle" =>
           /\ \A i \in 1..Len(webhooks) : CallsTo(webhooks[i]) <= 1
           /\ \A k \in 1..Len(run.posts) :
                  Answered(run.posts[k]) =>
                      (k < Len(run.posts) \/ run.status = "done")
    /\ admin.action = "test" => Len(admin.posts) <= 1

\* A job posted to a webhook whose endpoint answered 500, went on to the
\* next webhook, and ended without an exception.
C15_Witness ==
    /\ run.status = "done"
    /\ Len(run.posts) = 2
    /\ Answered(run.posts[1])
    /\ ~Delivered(run.posts[1])
    /\ run.posts[2].url # run.posts[1].url

\* C16 as claimed: a failed connection to one webhook does not reach the
\* job as an exception, and every webhook the job looked up gets its
\* request, also those behind the one that failed.
C16_NetworkFailureSwallowed ==
    (run.status # "idle" /\ Announced) =>
        /\ run.exc # "ConnectionError"
        /\ \A k \in 1..Len(run.lookup) : CallsTo(run.lookup[k]) = 1

\* What the test view flashed.
FlashKinds == {admin.flash[k][1] : k \in 1..Len(admin.flash)}

\* C17 as claimed: the test of an existing webhook posts the test text once
\* and answers 204; if the endpoint answered 2xx a success message is
\* shown, and if the connection failed or the endpoint answered another
\* status an error message with the error is shown and no success message.
C17_TestShowsEveryFailure ==
    (admin.action = "test"
        /\ find_webhook(webhooks, admin.webhook_id) # NoObject) =>
        /\ admin.status = 204
        /\ Len(admin.posts) = 1
        /\ PayloadText(admin.posts[1])
               = PrefixedText(WebhookOf(admin.posts[1]), TEST_TEXT)
        /\ IF Delivered(admin.posts[1])
               THEN FlashKinds = {"success"}
               ELSE FlashKinds = {"error"}

\* C17 as amended: the test of an existing webhook posts the test text once
\* and answers 204, whatever the call does; if the call raised (the
\* connection failed) an error message holding the exception is shown and
\* no success message; if the endpoint answered, with whatever status, the
\* success message is shown.
C17_TestShowsRaisedError ==
    (admin.action = "test"
        /\ find_webhook(webhooks, admin.webhook_id) # NoObject) =>
        /\ admin.status = 204
        /\ Len(admin.posts) = 1
        /\ admin.posts[1].url = find_webhook(webhooks, admin.webhook_id).url
        /\ PayloadText(admin.posts[1])
               = PrefixedText(WebhookOf(admin.posts[1]), TEST_TEXT)
        /\ IF Answered(admin.posts[1])
               THEN admin.flash = <<<<"success",
                                      "Webhook call has been successful.">>>>
               ELSE /\ Len(admin.flash) = 1
                    /\ admin.flash[1][1] = "error"
                    /\ StartsWith(admin.flash[1][2], "Webhook call failed:")
                    /\ Contains(admin.flash[1][2],
                                admin.posts[1].outcome.exc)

\* The test of a webhook whose endpoint cannot be reached: the view answers
\* 204 and shows the error.
C17_Witness ==
    /\ admin.action = "test"
    /\ admin.status = 204
    /\ Len(admin.posts) = 1
    /\ admin.posts[1].outcome.exc = "ConnectionError"
    /\ FlashKinds = {"error"}

-----------------------------------------------------------------------------
(* Properties of the confirmation of the email address *)

-----------------------------------------------------------------------------
(* Properties of the party service *)

\* C20 as claimed: get_party(party_id) returns the party with that id if
\* the table holds one, and returns None, without raising, if it holds
\* none.
C20_GetPartyOrNone ==
    site.action = "get_party" =>
        /\ site.exc = None
        /\ IF site.arg \in DOMAIN parties
               THEN /\ site.value # NoObject
                    /\ site.value.id = site.arg
                    /\ site.value = _db_entity_to_party(parties[site.arg])
               ELSE site.value = NoObject

-----------------------------------------------------------------------------
(* Properties of the newsletter service *)

\* The users get_subscribers is to yield for a list: those subscribed to
\* it now whose row is initialized, has a verified address that is not
\* None, and is neither suspended nor deleted.
EligibleSubscribers(list_id) ==
    {u \in DOMAIN accounts :
        /\ <<u, list_id>> \in subscriptions
        /\ accounts[u].initialized
        /\ accounts[u].email_address # None
        /\ accounts[u].email_address_verified
        /\ ~accounts[u].suspended
        /\ ~accounts[u].deleted}

\* C21: get_subscribers(list_id) yields screen name and email address of
\* the users that are subscribed to the list now and are initialized, have
\* a verified address that is not None, and are neither suspended nor
\* deleted: each of them exactly once, no one else, and nothing for a list
\* without subscriptions.
C21_EligibleSubscribersOnce ==
    site.action = "get_subscribers" =>
        LET yielded  == site.value
            eligible == EligibleSubscribers(site.arg)
            of(u)    == Subscriber(accounts[u].screen_name,
                                   accounts[u].email_address)
        IN  /\ site.exc = None
            /\ \A i \in 1..Len(yielded) : \E u \in eligible : yielded[i] = of(u)
            /\ \A u \in eligible :
                   Cardinality({i \in 1..Len(yielded) : yielded[i] = of(u)}) = 1
            /\ (\A u \in DOMAIN accounts : <<u, site.arg>> \notin subscriptions)
                   => yielded = <<>>

\* Two users are subscribed to the list asked for, a third subscription is
\* to the other list; one of the two is suspended, the other is yielded.
C21_Witness ==
    /\ site.action = "get_subscribers"
    /\ Cardinality({u \in DOMAIN accounts :
                        <<u, site.arg>> \in subscriptions}) = 2
    /\ \E u \in DOMAIN accounts, l \in ListIDs :
           l # site.arg /\ <<u, l>> \in subscriptions
    /\ Cardinality(EligibleSubscribers(site.arg)) = 1
    /\ \E u \in DOMAIN accounts :
           <<u, site.arg>> \in subscriptions /\ accounts[u].suspended
    /\ Len(site.value) = 1

-----------------------------------------------------------------------------
(* Properties of the template context processor cache *)

\* C22: the processor is cached after it has been obtained for the first
\* time.  For each site the import-based lookup is performed once at most,
\* and never again once a call for the site has been answered; every call
\* returns what the first lookup returned, also when that is None, whatever
\* the site's package holds by then.
C22_LookedUpOnceThenCached ==
    /\ [](\A s \in SiteIDs :
              /\ Len(app.imports[s]) <= 1
              /\ s \in DOMAIN app._site_context_processors
                     <=> Len(app.imports[s]) = 1)
    /\ []((site.action = "_find_site_template_context_processor_cached")
              => /\ Len(app.imports[site.arg]) = 1
                 /\ site.value = app.imports[site.arg][1])
    /\ [][\A s \in SiteIDs :
              Len(app.imports[s]) = 1 => app'.imports[s] = app.imports[s]]_vars

\* A site without a processor was asked for, its package then got a
\* processor, and the site was asked for again: None is returned and the
\* lookup was made once.
C22_Witness ==
    /\ site.action = "_find_site_template_context_processor_cached"
    /\ site.value = NoObject
    /\ app.imports[site.arg] = <<NoObject>>
    /\ callable(app.extensions[site.arg].template_context_processor)
    /\ _find_site_template_context_processor(app.extensions, site.arg)
           # NoObject

-----------------------------------------------------------------------------
(* Properties of the order actions *)

\* The order whose actions the most recent call executed.
ExecutedOrder == shop.orders[site.arg]

\* The stored actions for the articles of that order, by position in the
\* table.
RelevantActions ==
    {i \in 1..Len(shop.actions) :
        \E k \in DOMAIN ExecutedOrder.items :
            ExecutedOrder.items[k].article_number
                = shop.actions[i].article_number}

\* The calls of the procedure of the action at position i: those with the
\* action's parameters and the quantity ordered of its article.
InvocationsOf(i) ==
    {k \in 1..Len(site.value.invoked) :
        LET call   == site.value.invoked[k]
            action == shop.actions[i]
        IN  /\ call.action_id = action.id
            /\ call.procedure = action.procedure
            /\ call.order_id = ExecutedOrder.id
            /\ call.article_number = action.article_number
            /\ call.params = action.parameters
            /\ \E j \in DOMAIN ExecutedOrder.items :
                   /\ ExecutedOrder.items[j].article_number
                          = action.article_number
                   /\ ExecutedOrder.items[j].quantity = call.article_quantity}

\* The relevant actions in front of which no relevant action has a
\* procedure name that is not registered, itself included.
ReachedActions ==
    {i \in RelevantActions :
        \A j \in RelevantActions :
            j <= i => shop.actions[j].procedure \in DOMAIN PROCEDURES_BY_NAME}

\* C23 as claimed: execute_order_actions invokes the procedure of every
\* stored action for an article of the order exactly once, with the
\* action's parameters and the quantity ordered; no other action is
\* invoked; an order without line items invokes nothing and looks up no
\* actions.
C23_EveryRelevantActionOnce ==
    site.action = "execute_order_actions" =>
        /\ \A i \in RelevantActions : Cardinality(InvocationsOf(i)) = 1
        /\ \A k \in 1..Len(site.value.invoked) :
               \E i \in RelevantActions : k \in InvocationsOf(i)
        /\ ExecutedOrder.items = <<>>
               => site.value.invoked = <<>> /\ site.value.lookups = 0

\* C23, amended: the relevant actions are gone through in the order of the
\* lookup, and each one's procedure is invoked exactly once, with the
\* action's parameters and the quantity ordered, until an action comes
\* whose procedure name is not registered: there the call raises, and
\* neither that action nor any after it is invoked.  No other action is
\* invoked; an order without line items invokes nothing and looks up no
\* actions.
C23_RelevantActionsUntilUnregistered ==
    site.action = "execute_order_actions" =>
        /\ \A i \in ReachedActions : Cardinality(InvocationsOf(i)) = 1
        /\ \A k \in 1..Len(site.value.invoked) :
               \E i \in ReachedActions : k \in InvocationsOf(i)
        /\ \A k, l \in 1..Len(site.value.invoked) :
               k < l => site.value.invoked[k].action_id
                            < site.value.invoked[l].action_id
        /\ site.exc # None <=> ReachedActions # RelevantActions
        /\ ExecutedOrder.items = <<>>
               => site.value.invoked = <<>> /\ site.value.lookups = 0

\* An order of two articles in different quantities, with an action for
\* each: both procedures were invoked, each with the quantity of its
\* article.
C23_Witness ==
    /\ site.action = "execute_order_actions"
    /\ site.exc = None
    /\ Len(ExecutedOrder.items) = 2
    /\ ExecutedOrder.items[1].quantity # ExecutedOrder.items[2].quantity
    /\ Len(site.value.invoked) = 2
    /\ site.value.invoked[1].article_number
           # site.value.invoked[2].article_number
    /\ site.value.invoked[1].article_quantity
           # site.value.invoked[2].article_quantity

-----------------------------------------------------------------------------
(* Properties of the webhook admin and the registry the dispatcher reads *)

\* The job whose outcome is r made a request to the webhook with that id:
\* the requests of a job go to the webhooks its lookup found, in order.
ReachedBy(r, webhook_id) ==
    \E k \in 1..Len(r.posts) : r.lookup[k].id = webhook_id

\* The webhook is enabled, is an IRC webhook and selects the event.
SelectsNow(webhook, event) ==
    /\ webhook.enabled
    /\ webhook.format = "weitersager"
    /\ get_name_for_event(event) \in webhook.event_selectors

\* C24 as claimed: the webhooks an announcement goes to are decided by the
\* registry as it is when the job runs, not as it was when the event was
\* published: requests are made only in the step that takes the job, and
\* in that step a webhook gets a request exactly if it is enabled and
\* selects the event then, whatever it was when the event was published.
C24_RegistryAtRunDecides ==
    [][run' # run =>
          /\ Len(queue') < Len(queue)
          /\ \A i \in 1..Len(webhooks) :
                 ReachedBy(run', webhooks[i].id)
                     <=> SelectsNow(webhooks[i], run'.event)]_vars

\* C25: a webhook made by the view create is stored disabled, whatever the
\* form holds; a webhook that is disabled becomes enabled only by an update
\* of it whose form sets the flag; and a job makes requests only to
\* webhooks that are enabled when it runs.  So a webhook that was created
\* gets no announcement before an update has enabled it.
C25_CreatedDisabledUntilUpdated ==
    /\ [][Len(webhooks') > Len(webhooks) =>
              /\ admin'.action = "create"
              /\ Len(webhooks') = Len(webhooks) + 1
              /\ SubSeq(webhooks', 1, Len(webhooks)) = webhooks
              /\ webhooks'[Len(webhooks')].enabled = FALSE]_vars
    /\ [][\A i \in 1..Len(webhooks) :
              (webhooks'[i].enabled /\ ~webhooks[i].enabled) =>
                  /\ admin'.action = "update"
                  /\ admin'.status = 302
                  /\ admin'.webhook_id = webhooks[i].id
                  /\ admin'.form.enabled]_vars
    /\ [][run' # run =>
              \A i \in 1..Len(webhooks) :
                  ReachedBy(run', webhooks[i].id) => webhooks[i].enabled]_vars

\* An event was published, a webhook selecting it was created with a form
\* that says enabled, and the job ran: the webhook is stored disabled and
\* the job, which made a request to another webhook, made none to it.
C25_Witness ==
    /\ admin.action = "create"
    /\ admin.status = 302
    /\ admin.form.enabled
    /\ run.status = "done"
    /\ run.posts # <<>>
    /\ LET webhook == find_webhook(webhooks, admin.webhook_id)
       IN  /\ webhook # NoObject
           /\ ~webhook.enabled
           /\ get_name_for_event(run.event) \in webhook.event_selectors
           /\ ~ReachedBy(run, webhook.id)

\* C26: every webhook selects known event names only; after a create or an
\* update that was accepted the webhook selects exactly the known event
\* names checked in that form, whatever it selected before; and what a
\* webhook selects changes in no other step.
C26_SelectorsAreLastFormChecked ==
    /\ [](\A i \in 1..Len(webhooks) :
              webhooks[i].event_selectors \subseteq WEBHOOK_EVENT_NAMES)
    /\ []((admin.action \in {"create", "update"} /\ admin.status = 302) =>
              /\ find_webhook(webhooks, admin.webhook_id) # NoObject
              /\ find_webhook(webhooks, admin.webhook_id).event_selectors
                     = admin.form.checked \cap WEBHOOK_EVENT_NAMES)
    /\ [][\A i \in 1..Len(webhooks) :
              webhooks'[i].event_selectors # webhooks[i].event_selectors =>
                  /\ admin'.action = "update"
                  /\ admin'.status = 302
                  /\ admin'.webhook_id = webhooks[i].id]_vars

\* A webhook that was stored with a channel, and so selected some event,
\* was updated with no event checked and selects none now; another one was
\* created with a known and an unknown name checked and selects the known
\* one.
C26_Witness ==
    /\ admin.action = "update"
    /\ admin.status = 302
    /\ admin.form.checked = {}
    /\ LET webhook == find_webhook(webhooks, admin.webhook_id)
       IN  /\ "channel" \in DOMAIN webhook.extra_fields
           /\ webhook.event_selectors = {}
    /\ \E i \in 1..Len(webhooks) :
           /\ webhooks[i].id # admin.webhook_id
           /\ webhooks[i].description = "orga log"
           /\ webhooks[i].event_selectors = {"user-account-created"}

\* C27: a request that is rejected leaves the registry as it is: a create
\* or update with an invalid form is answered with the form (200), an
\* update or test for an id without a webhook with 404, and neither writes
\* to the registry nor makes a request to an endpoint.
C27_RejectedChangesNothing ==
    /\ [][(admin' # admin /\ admin'.status \in {200, 404}) =>
              /\ webhooks' = webhooks
              /\ admin'.posts = <<>>
              /\ admin'.flash = <<>>]_vars
    /\ [][admin' # admin =>
              /\ (admin'.action \in {"create", "update"} /\ ~admin'.form.valid
                      /\ admin'.status # 404) => admin'.status = 200
              /\ (admin'.action \in {"update", "test"}
                      /\ find_webhook(webhooks, admin'.webhook_id) = NoObject)
                     => admin'.status = 404]_vars

\* An update with an invalid form was answered with the form: the webhook
\* has nothing of the form.
C27_Witness ==
    /\ admin.action = "update"
    /\ admin.status = 200
    /\ ~admin.form.valid
    /\ LET webhook == find_webhook(webhooks, admin.webhook_id)
       IN  /\ webhook # NoObject
           /\ webhook.url # strip(admin.form.url)
           /\ webhook.enabled # admin.form.enabled
           /\ webhook.event_selectors
                  # admin.form.checked \cap WEBHOOK_EVENT_NAMES

\* C28: the test of a webhook makes one request to its URL, whether the
\* webhook is enabled or not and whatever it selects, and leaves the
\* registry as it is; a job never makes a request to a webhook that is
\* disabled or does not select the event when the job runs, so a disabled
\* webhook gets requests from the test only.
C28_TestReachesDisabledOnly ==
    /\ [][(admin' # admin /\ admin'.action = "test") =>
              /\ webhooks' = webhooks
              /\ LET webhook == find_webhook(webhooks, admin'.webhook_id)
                 IN  webhook # NoObject =>
                         /\ admin'.status = 204
                         /\ Len(admin'.posts) = 1
                         /\ admin'.posts[1].url = webhook.url]_vars
    /\ [][run' # run =>
              /\ Len(run'.posts) <= Len(run'.lookup)
              /\ \A k \in 1..Len(run'.posts) :
                     /\ run'.posts[k].url = run'.lookup[k].url
                     /\ \E i \in 1..Len(webhooks) :
                            /\ webhooks[i] = run'.lookup[k]
                            /\ SelectsNow(webhooks[i], run'.event)]_vars
    /\ [][(admin' # admin /\ admin'.action # "test") => admin'.posts = <<>>]_vars

\* The test of a webhook that is disabled and selects no event made a
\* request to its URL.
C28_Witness ==
    /\ admin.action = "test"
    /\ admin.status = 204
    /\ LET webhook == find_webhook(webhooks, admin.webhook_id)
       IN  /\ webhook # NoObject
           /\ ~webhook.enabled
           /\ webhook.event_selectors = {}
           /\ Len(admin.posts) = 1
           /\ admin.posts[1].url = webhook.url

-----------------------------------------------------------------------------
(* Properties of the creation of users: what is published *)

\* How often a step occurs among the steps of a request.
TimesIn(steps, step) ==
    Cardinality({k \in 1..Len(steps) : steps[k] = step})

\* The job the handler enqueues for the account_created event of a user.
AccountCreatedJob(user_id) ==
    [func  |-> "announce_user_account_created",
     event |-> [type |-> "UserAccountCreated", initiator_id |-> None,
                user_id |-> user_id]]

\* C29: a request to create a user publishes account_created once if it
\* created a user, and the event is that user's; it publishes nothing and
\* subscribes no one if it created none: with account creation disabled
\* (403), with an invalid form, or when the creation failed.  A
\* subscription to the newsletter is made after the event is published, and
\* for the user created only.
C29_PublishedOncePerCreatedUser ==
    /\ [][(site' # site /\ site'.action = "create") =>
              LET created == DOMAIN accounts' \ DOMAIN accounts
                  added   == subscriptions' \ subscriptions
              IN  /\ Cardinality(created) <= 1
                  /\ TimesIn(site'.steps, "send") = Cardinality(created)
                  /\ site'.status \in {403, 200} => created = {}
                  /\ site'.status = 302 => created # {}
                  /\ created = {} =>
                         /\ queue' = queue
                         /\ added = {}
                         /\ TimesIn(site'.steps, "subscribe") = 0
                  /\ created # {} =>
                         /\ created = {site'.user_id}
                         /\ \/ queue' = Append(queue,
                                            AccountCreatedJob(site'.user_id))
                            \/ queue' = queue /\ site'.exc # None
                         /\ site'.status = 302 =>
                                queue' = Append(queue,
                                             AccountCreatedJob(site'.user_id))
                         /\ \A s \in added : s[1] = site'.user_id
                         /\ added # {} <=> TimesIn(site'.steps, "subscribe") = 1
                  /\ \A k, l \in 1..Len(site'.steps) :
                         (site'.steps[k] = "subscribe" /\ site'.steps[l] = "send")
                             => l < k]_vars
    /\ [][Len(queue') > Len(queue) =>
              (site' # site /\ site'.action = "create")]_vars

\* A user was created with the newsletter checked: the event is in the
\* queue, once, the user is subscribed, and the event was published before
\* the subscription was made.
C29_Witness ==
    /\ site.action = "create"
    /\ site.status = 302
    /\ site.steps = <<"create_user", "send", "subscribe">>
    /\ site.user_id \in DOMAIN accounts
    /\ queue = <<AccountCreatedJob(site.user_id)>>
    /\ <<site.user_id, "news">> \in subscriptions

-----------------------------------------------------------------------------
(* Properties of the channels of the announcers *)

\* C30: the announcers of the user account events and of the badge event
\* hand their text to send_message for the organizer log channel, that one
\* channel and never the public one, whatever the event holds and whatever
\* the webhook registry holds: an announcer that reaches send_message names
\* exactly the organizer log, one that raises before names no channel.
C30_OrgaLogOnly ==
    (run.status # "idle" /\ run.event.type \in IrcEventTypes) =>
        /\ \A k \in 1..Len(run.channels) : run.channels[k] = CHANNEL_ORGA_LOG
        /\ \A k \in 1..Len(run.channels) : run.channels[k] # CHANNEL_PUBLIC
        /\ run.text # None <=> run.channels = <<CHANNEL_ORGA_LOG>>
        /\ run.text = None => run.channels = <<>> /\ run.exc # None

\* The job of a badge event with an initiator ran with a webhook that is
\* enabled and selects the event, and made a request: the channel named is
\* the organizer log.
C30_Witness ==
    /\ run.status = "done"
    /\ run.event.type = "UserBadgeAwarded"
    /\ run.event.initiator_id # None
    /\ run.channels = <<CHANNEL_ORGA_LOG>>
    /\ run.posts # <<>>

====
